---- MODULE Spec2Model ----
(***************************************************************************)
(* A model of wgpu_dance: the generic window application shell             *)
(* (src/src/app.rs) driving the load_model application                     *)
(* (src/examples/load_model/main.rs), the render model's buffer            *)
(* allocation and the DrawModel capability (src/src/model.rs), and the     *)
(* resource loader (src/src/resource.rs).                                  *)
(*                                                                         *)
(* Rust's Option<T> is modelled as a sequence of length at most one:       *)
(* <<>> is None and <<x>> is Some(x).                                      *)
(***************************************************************************)
EXTENDS Integers, Sequences, FiniteSets, TLC

VARIABLES
    \* ---- WgpuAppHandler<A> (src/src/app.rs) and its environment ----
    app,              \* Option<A>: the content of Arc<Mutex<Option<A>>>
    window,           \* Option<Arc<Window>>: <<>> or <<window id>>
    loop,             \* the event loop: "running", "exiting" (exit() called), "exited"
    panicked,         \* the process has aborted on a panic (unwrap, assert)
    nNew,             \* number of times A::new has been run
    nWindows,         \* number of windows created by create_window
    redrawRequested,  \* the window holds a pending redraw request
    lastEvent,        \* kind of the event handled last
    lastSize,         \* payload of the Resized event handled last
    calls,            \* calls the last handler made on the app, the window, the loop
    surfaceOps,       \* surface operations the application performed in the last handler
    renderResult,     \* what render returned in the last handler ("none" if not run)
    kbConsumed,       \* what keyboard_input returned in the last handler
    tick,             \* flips every time a handler runs
    program,          \* the program that runs: "load_model" under the generic
                      \* shell, or a triangle program with its own shell
    \* ---- Model<V> (src/src/model.rs) ----
    model,            \* the Model<V> instance
    modelPanicked,    \* alloc_buffer aborted on an assertion
    deviceBuffers,    \* the buffers created on the device, in creation order
    \* ---- DrawModel for RenderPass (src/src/model.rs) ----
    meshModel,        \* the MeshModel being drawn
    pass,             \* the commands recorded in the render pass
    drawPanicked,     \* a draw call aborted (index out of bounds)
    lastDraw,         \* the draw operation called last: its arguments, and the
                      \* length of the pass when it was called
    \* ---- the resource loader (src/src/resource.rs) and its environment ----
    loadEnv,          \* the working directory, the files and the decoder's verdict
    loadOut,          \* the loader operation called last: its argument, the reads
                      \* and decodes it made, what it returned
    \* ---- the shell's handlers statement by statement (src/src/app.rs) ----
    prog,             \* the statements the event-loop thread has still to run
                      \* in the handlers it is in; <<>> between events
    locals,           \* the running handler's locals
    mutex             \* the Mutex around the Application: held or not, locks
                      \* taken by the running handler, and what went wrong

shellVars == <<app, window, loop, panicked, nNew, nWindows, redrawRequested,
               lastEvent, lastSize, calls, surfaceOps, renderResult, kbConsumed, tick,
               program>>
modelVars == <<model, modelPanicked, deviceBuffers>>
drawVars == <<meshModel, pass, drawPanicked, lastDraw>>
loadVars == <<loadEnv, loadOut>>
stepVars == <<prog, locals, mutex>>
vars == <<shellVars, modelVars, drawVars, loadVars, stepVars>>

\* ---------------------------------------------------------------- bounds
\* Window widths and heights range over 0..MaxDim.
MaxDim == 2
\* Counters of constructions and windows saturate here.
MaxCount == 3

Dim == 0..MaxDim
Sizes == Dim \X Dim

Min(a, b) == IF a < b THEN a ELSE b
Bump(n) == Min(n + 1, MaxCount)

\* ---------------------------------------------------------------- Option
None == <<>>
Some(x) == <<x>>
is_some(o) == Len(o) = 1
unwrap(o) == o[1]

\* ------------------------------------------------- the Application (load_model)
\* Mutant: the configuration gets the inner size raised to at least 1 and
\* the stored size the inner size as it is.
AppNewClampsConfigOnly(inner_size, obj_model) ==
    [size |-> inner_size, size_changed |-> FALSE,
     surface_config |-> <<IF inner_size[1] = 0 THEN 1 ELSE inner_size[1],
                          IF inner_size[2] = 0 THEN 1 ELSE inner_size[2]>>,
     obj_model |-> obj_model]

\* App::new: the surface is configured with the window's inner size as it is;
\* obj_model is the MeshModel that load_model returned.
AppNew(inner_size, obj_model) ==
    [size |-> inner_size, size_changed |-> FALSE, surface_config |-> inner_size,
     obj_model |-> obj_model]

\* The surface operations of App::new up to the call of load_model.
AppNewOps == <<"configure", "create_depth_texture">>

\* The models load_model can return for the file it reads: the material
\* index of each mesh and the materials come from the file, so an index can
\* lie in or out of the materials.
LoadedModels ==
    {[meshes |-> <<[material |-> 0]>>, materials |-> <<"material0">>],
     [meshes |-> <<[material |-> 0], [material |-> 1]>>,
      materials |-> <<"material0">>]}

\* The bounds check of model.materials[mesh.material]: usize against len.
material_in_bounds(mm, mesh) == mesh.material < Len(mm.materials)

\* draw_model_instanced aborts on the first mesh whose material index is
\* out of bounds.
draw_model_aborts(mm) ==
    \E k \in 1..Len(mm.meshes) : ~material_in_bounds(mm, mm.meshes[k])

\* Mutant: the resize notification applies the size to the surface at once.
set_window_resized_applies(a, new_size) ==
    IF new_size = a.size
    THEN a
    ELSE [a EXCEPT !.size = new_size, !.surface_config = new_size]

\* App::set_window_resized
set_window_resized(a, new_size) ==
    IF new_size = a.size
    THEN a
    ELSE [a EXCEPT !.size = new_size, !.size_changed = TRUE]

\* Mutant: the surface is reconfigured and the pending flag is left set.
resize_surface_if_needed_keeps_flag(a) ==
    IF a.size_changed
    THEN [app |-> [a EXCEPT !.surface_config = a.size],
          ops |-> <<"configure", "create_depth_texture">>]
    ELSE [app |-> a, ops |-> <<>>]

\* App::resize_surface_if_needed: the application afterwards, and the surface
\* operations performed.
resize_surface_if_needed(a) ==
    IF a.size_changed
    THEN [app |-> [a EXCEPT !.surface_config = a.size, !.size_changed = FALSE],
          ops |-> <<"configure", "create_depth_texture">>]
    ELSE [app |-> a, ops |-> <<>>]

\* What surface.get_current_texture() can return.
AcquireResults == {"Ok", "Lost", "Outdated", "Timeout", "OutOfMemory"}

\* App::render: `acquire` is the outcome of get_current_texture. The result
\* "Panic" is the abort of draw_model_instanced inside the render pass:
\* nothing is submitted or presented and render does not return.
render(a, acquire) ==
    LET r == resize_surface_if_needed(a) IN
    IF acquire # "Ok"
    THEN [app |-> r.app, ops |-> r.ops \o <<"get_current_texture">>,
          result |-> acquire]
    ELSE IF draw_model_aborts(a.obj_model)
    THEN [app |-> r.app,
          ops |-> r.ops \o <<"get_current_texture", "begin_render_pass",
                             "draw_model_instanced">>,
          result |-> "Panic"]
    ELSE [app |-> r.app,
          ops |-> r.ops \o <<"get_current_texture", "begin_render_pass",
                             "draw_model_instanced", "submit", "present">>,
          result |-> "Ok"]

\* ------------------------------------------------------ WgpuAppHandler
\* Mutant: `resumed` without its presence check.
resumed_never_returns_early == FALSE

\* The presence check at the head of `resumed`.
resumed_returns_early == is_some(app)

\* Mutant: a failed setup step makes `resumed` return instead of aborting.
setup_failure_returns == FALSE

\* The unwrap on every setup step: a failure panics.
setup_failure_aborts == TRUE

\* The outcomes of the setup steps of `resumed`; every failure is an unwrap.
\* "new_failed" is a failure of A::new before it configures the surface
\* (create_surface, request_adapter, request_device), "load_model_failed" the
\* failure of load_model, after the surface was configured and the depth
\* texture made.
SetupOutcomes ==
    {"ok", "runtime_failed", "window_failed", "new_failed", "load_model_failed"}

\* Mutant: only a window with both dimensions zero counts as minimized.
is_minimized_both(sz) == sz[1] = 0 /\ sz[2] = 0

\* The minimized-window test of the Resized arm.
is_minimized(sz) == sz[1] = 0 \/ sz[2] = 0

\* WgpuAppHandler::pre_present_notify / request_redraw: act only on a window.
pre_present_notify_calls == IF is_some(window) THEN <<"pre_present_notify">> ELSE <<>>
request_redraw_calls == IF is_some(window) THEN <<"request_redraw">> ELSE <<>>

\* Mutant: a lost surface ends the event loop.
on_render_result_exit_on_lost(res) ==
    CASE res \in {"Ok", "Panic"} -> [log |-> <<>>, exit |-> FALSE]
      [] res = "Lost" -> [log |-> <<"eprintln:Surface is lost">>, exit |-> TRUE]
      [] OTHER -> [log |-> <<"eprintln:error">>, exit |-> FALSE]

\* The match on render's result: what is printed, and whether exit is signalled.
on_render_result(res) ==
    CASE res \in {"Ok", "Panic"} -> [log |-> <<>>, exit |-> FALSE]
      [] res = "Lost" -> [log |-> <<"eprintln:Surface is lost">>, exit |-> FALSE]
      [] OTHER -> [log |-> <<"eprintln:error">>, exit |-> FALSE]

\* Mutant: the frame is rendered before the Application is updated.
redraw_steps_render_first ==
    <<"pre_present_notify", "render", "update", "request_redraw">>

\* The statements of the RedrawRequested arm, in program order.
redraw_steps == <<"update", "pre_present_notify", "render", "request_redraw">>

\* One statement of the RedrawRequested arm applied to the handler's running
\* state s = [app, calls, ops, result, redraw, exit, panicked].
RedrawStep(step, s, acquire) ==
    CASE step = "update" ->
            [s EXCEPT !.calls = @ \o <<"update">>]
      [] step = "pre_present_notify" ->
            [s EXCEPT !.calls = @ \o pre_present_notify_calls]
      [] step = "render" ->
            LET r == render(s.app, acquire)
                m == on_render_result(r.result)
            IN [s EXCEPT !.app = r.app,
                         !.calls = @ \o <<"render">> \o m.log
                                    \o (IF m.exit THEN <<"exit">> ELSE <<>>),
                         !.ops = @ \o r.ops,
                         !.result = r.result,
                         !.exit = @ \/ m.exit,
                         !.panicked = (r.result = "Panic")]
      [] step = "request_redraw" ->
            [s EXCEPT !.calls = @ \o request_redraw_calls,
                      !.redraw = @ \/ is_some(window)]

RECURSIVE RunRedraw(_, _, _)
RunRedraw(steps, s, acquire) ==
    IF steps = <<>> \/ s.panicked THEN s
    ELSE RunRedraw(Tail(steps), RedrawStep(Head(steps), s, acquire), acquire)

\* Mutant: a key press ends the event loop too.
exits_on_key(ev) == ev \in {"CloseRequested", "KeyboardInput"}

\* The arms of window_event's match that call event_loop.exit().
exits(ev) == ev = "CloseRequested"

ExitCalls(ev) == IF exits(ev) THEN <<"exit">> ELSE <<>>
LoopAfter(ev) == IF exits(ev) THEN "exiting" ELSE loop

\* Events reach a handler while the loop has not ended and the process lives.
Delivering == loop # "exited" /\ ~panicked

Handled(ev, sz) ==
    /\ lastEvent' = ev
    /\ lastSize' = sz
    /\ tick' = ~tick

\* Mutant: a window event that finds no Application is dropped.
WindowEventDropped(ev, sz) ==
    /\ calls' = <<>>
    /\ surfaceOps' = <<>>
    /\ renderResult' = "none"
    /\ kbConsumed' = FALSE
    /\ Handled(ev, sz)
    /\ UNCHANGED <<app, window, loop, panicked, nNew, nWindows, redrawRequested>>

\* guard.as_mut().unwrap() on an absent Application: the handler panics
\* before it looks at the event.
WindowEventPanics(ev, sz) ==
    /\ panicked' = TRUE
    /\ calls' = <<>>
    /\ surfaceOps' = <<>>
    /\ renderResult' = "none"
    /\ kbConsumed' = FALSE
    /\ Handled(ev, sz)
    /\ UNCHANGED <<app, window, loop, nNew, nWindows, redrawRequested>>

\* ApplicationHandler::resumed: `setup` is how far the setup gets,
\* `inner_size` the size of the window made, `obj_model` what load_model
\* returns.
Resumed(setup, inner_size, obj_model) ==
    /\ Delivering
    /\ Handled("Resumed", <<0, 0>>)
    /\ renderResult' = "none"
    /\ kbConsumed' = FALSE
    /\ UNCHANGED <<loop, redrawRequested>>
    /\ IF resumed_returns_early
       THEN /\ calls' = <<>>
            /\ surfaceOps' = <<>>
            /\ UNCHANGED <<app, window, panicked, nNew, nWindows>>
       ELSE CASE setup = "runtime_failed" ->
                    /\ panicked' = setup_failure_aborts
                    /\ calls' = <<"Runtime::new">>
                    /\ surfaceOps' = <<>>
                    /\ UNCHANGED <<app, window, nNew, nWindows>>
              [] setup = "window_failed" ->
                    /\ panicked' = setup_failure_aborts
                    /\ calls' = <<"Runtime::new", "create_window">>
                    /\ surfaceOps' = <<>>
                    /\ UNCHANGED <<app, window, nNew, nWindows>>
              [] setup \in {"new_failed", "load_model_failed"} ->
                    /\ panicked' = setup_failure_aborts
                    /\ calls' = <<"Runtime::new", "create_window", "A::new">>
                    /\ surfaceOps' = IF setup = "load_model_failed"
                                     THEN AppNewOps ELSE <<>>
                    /\ nWindows' = Bump(nWindows)
                    /\ nNew' = Bump(nNew)
                    /\ UNCHANGED <<app, window>>
              [] OTHER ->
                    /\ calls' = <<"Runtime::new", "create_window", "A::new">>
                    /\ surfaceOps' = AppNewOps
                    /\ nWindows' = Bump(nWindows)
                    /\ nNew' = Bump(nNew)
                    /\ app' = Some(AppNew(inner_size, obj_model))
                    /\ window' = Some(Bump(nWindows))
                    /\ UNCHANGED panicked

\* Mutant: `suspended` tears the Application down.
suspended_drops(slot) == None

\* What `suspended` leaves in the Application slot: its body is empty.
suspended_slot(slot) == slot

\* ApplicationHandler::suspended
Suspended ==
    /\ Delivering
    /\ Handled("Suspended", <<0, 0>>)
    /\ app' = suspended_slot(app)
    /\ calls' = <<>>
    /\ surfaceOps' = <<>>
    /\ renderResult' = "none"
    /\ kbConsumed' = FALSE
    /\ UNCHANGED <<window, loop, panicked, nNew, nWindows, redrawRequested>>

\* window_event, WindowEvent::CloseRequested
CloseRequested ==
    /\ Delivering
    /\ IF ~is_some(app) THEN WindowEventPanics("CloseRequested", <<0, 0>>)
       ELSE /\ Handled("CloseRequested", <<0, 0>>)
            /\ loop' = LoopAfter("CloseRequested")
            /\ calls' = ExitCalls("CloseRequested")
            /\ surfaceOps' = <<>>
            /\ renderResult' = "none"
            /\ kbConsumed' = FALSE
            /\ UNCHANGED <<app, window, panicked, nNew, nWindows, redrawRequested>>

\* window_event, WindowEvent::Resized(physical_size)
Resized(sz) ==
    /\ Delivering
    /\ IF ~is_some(app) THEN WindowEventPanics("Resized", sz)
       ELSE /\ Handled("Resized", sz)
            /\ IF is_minimized(sz)
               THEN /\ calls' = ExitCalls("Resized")
                    /\ UNCHANGED app
               ELSE /\ calls' = ExitCalls("Resized") \o <<"set_window_resized">>
                    /\ app' = Some(set_window_resized(unwrap(app), sz))
            /\ loop' = LoopAfter("Resized")
            /\ surfaceOps' = <<>>
            /\ renderResult' = "none"
            /\ kbConsumed' = FALSE
            /\ UNCHANGED <<window, panicked, nNew, nWindows, redrawRequested>>

\* Mutant: a consumed key makes the shell request a redraw.
consumed_requests_redraw(consumed) == consumed

\* `let _ = app.keyboard_input(&event)`: whether the shell requests a redraw
\* on the value returned. The value is dropped.
consumed_used(consumed) == FALSE

\* window_event, WindowEvent::KeyboardInput: `consumed` is what the
\* application's keyboard_input returns; the shell drops it.
KeyboardInput(consumed) ==
    /\ Delivering
    /\ IF ~is_some(app) THEN WindowEventPanics("KeyboardInput", <<0, 0>>)
       ELSE /\ Handled("KeyboardInput", <<0, 0>>)
            /\ calls' = ExitCalls("KeyboardInput") \o <<"keyboard_input">>
                           \o (IF consumed_used(consumed)
                               THEN request_redraw_calls ELSE <<>>)
            /\ redrawRequested' = (redrawRequested \/ consumed_used(consumed))
            /\ kbConsumed' = consumed
            /\ loop' = LoopAfter("KeyboardInput")
            /\ surfaceOps' = <<>>
            /\ renderResult' = "none"
            /\ UNCHANGED <<app, window, panicked, nNew, nWindows>>

\* window_event, WindowEvent::RedrawRequested: the delivery consumes the
\* window's pending request.
RedrawRequested(acquire) ==
    /\ Delivering
    /\ IF ~is_some(app) THEN WindowEventPanics("RedrawRequested", <<0, 0>>)
       ELSE LET s0 == [app |-> unwrap(app), calls |-> <<>>, ops |-> <<>>,
                       result |-> "none", redraw |-> FALSE, exit |-> FALSE,
                       panicked |-> FALSE]
                s == RunRedraw(redraw_steps, s0, acquire)
            IN /\ Handled("RedrawRequested", <<0, 0>>)
               /\ app' = Some(s.app)
               /\ calls' = ExitCalls("RedrawRequested") \o s.calls
               /\ surfaceOps' = s.ops
               /\ renderResult' = s.result
               /\ redrawRequested' = s.redraw
               /\ loop' = IF s.exit THEN "exiting" ELSE LoopAfter("RedrawRequested")
               /\ kbConsumed' = FALSE
               /\ panicked' = s.panicked
               /\ UNCHANGED <<window, nNew, nWindows>>

\* window_event, any other WindowEvent: the `_ => ()` arm.
OtherWindowEvent ==
    /\ Delivering
    /\ IF ~is_some(app) THEN WindowEventPanics("Other", <<0, 0>>)
       ELSE /\ Handled("Other", <<0, 0>>)
            /\ calls' = ExitCalls("Other")
            /\ loop' = LoopAfter("Other")
            /\ surfaceOps' = <<>>
            /\ renderResult' = "none"
            /\ kbConsumed' = FALSE
            /\ UNCHANGED <<app, window, panicked, nNew, nWindows, redrawRequested>>

\* The event loop ends after exit() was signalled.
LoopExit ==
    /\ loop = "exiting"
    /\ ~panicked
    /\ loop' = "exited"
    /\ UNCHANGED <<app, window, panicked, nNew, nWindows, redrawRequested,
                   lastEvent, lastSize, calls, surfaceOps, renderResult,
                   kbConsumed, tick>>

\* The owner holds the handler before it hands it to run_app, which borrows
\* it mutably until the loop has ended, and again after run_app has returned.
OutsideRunApp == loop = "exited" \/ lastEvent = "none"

\* The public helpers of the handler.
Helpers == {"pre_present_notify", "request_redraw"}

\* The owner calls WgpuAppHandler::pre_present_notify or ::request_redraw:
\* either acts on the window if there is one; a redraw request is then
\* pending on the window.
HelperCall(h) ==
    /\ OutsideRunApp
    /\ ~panicked
    /\ redrawRequested' = (redrawRequested \/ (h = "request_redraw" /\ is_some(window)))
    /\ UNCHANGED <<app, window, loop, panicked, nNew, nWindows,
                   lastEvent, lastSize, calls, surfaceOps, renderResult,
                   kbConsumed, tick>>

ShellInit ==
    /\ app = None
    /\ window = None
    /\ loop = "running"
    /\ panicked = FALSE
    /\ nNew = 0
    /\ nWindows = 0
    /\ redrawRequested = FALSE
    /\ lastEvent = "none"
    /\ lastSize = <<0, 0>>
    /\ calls = <<>>
    /\ surfaceOps = <<>>
    /\ renderResult = "none"
    /\ kbConsumed = FALSE
    /\ tick = FALSE
    /\ program = "load_model"

ModelIdle ==
    /\ model = [vertices |-> <<>>, indices |-> <<>>,
                vertex_buffer |-> None, index_buffer |-> None]
    /\ modelPanicked = FALSE
    /\ deviceBuffers = <<>>

DrawIdle ==
    /\ meshModel = [meshes |-> <<>>, materials |-> <<>>]
    /\ pass = <<>>
    /\ drawPanicked = FALSE
    /\ lastDraw = [op |-> "none", first |-> 0, last |-> 0, camera |-> 0, start |-> 0,
                 mesh |-> 0, material |-> 0]

\* A Result: Ok with the data, or Err with the kind of error.
Ok(data) == [kind |-> "ok", err |-> "", data |-> data]
Err(e) == [kind |-> "err", err |-> e, data |-> <<>>]
NoResult == [kind |-> "none", err |-> "", data |-> <<>>]

LoadIdle ==
    /\ loadEnv = [cwd |-> [kind |-> "err", dir |-> <<>>, utf8 |-> TRUE],
                  fs |-> <<>>, decode |-> "texture"]
    /\ loadOut = [op |-> "none", file |-> "", reads |-> <<>>, decodes |-> <<>>,
                  result |-> NoResult, panicked |-> FALSE]

\* No handler is running: nothing left to run, no local alive, the mutex free.
NoLocals == [present |-> FALSE, window |-> None, wgpu_app |-> None,
             size |-> <<0, 0>>]
MutexFree == [held |-> FALSE, acquired |-> 0, deadlocked |-> FALSE,
              unguarded |-> FALSE, poisoned |-> FALSE]

StepIdle ==
    /\ prog = <<>>
    /\ locals = NoLocals
    /\ mutex = MutexFree

Init == ShellInit /\ ModelIdle /\ DrawIdle /\ LoadIdle /\ StepIdle

Next ==
    \/ \E setup \in SetupOutcomes, sz \in Sizes, m \in LoadedModels :
           Resumed(setup, sz, m) /\ UNCHANGED <<program, modelVars, drawVars, loadVars, stepVars>>
    \/ Suspended /\ UNCHANGED <<program, modelVars, drawVars, loadVars, stepVars>>
    \/ CloseRequested /\ UNCHANGED <<program, modelVars, drawVars, loadVars, stepVars>>
    \/ \E sz \in Sizes : Resized(sz) /\ UNCHANGED <<program, modelVars, drawVars, loadVars, stepVars>>
    \/ \E c \in BOOLEAN : KeyboardInput(c) /\ UNCHANGED <<program, modelVars, drawVars, loadVars, stepVars>>
    \/ \E r \in AcquireResults : RedrawRequested(r) /\ UNCHANGED <<program, modelVars, drawVars, loadVars, stepVars>>
    \/ OtherWindowEvent /\ UNCHANGED <<program, modelVars, drawVars, loadVars, stepVars>>
    \/ LoopExit /\ UNCHANGED <<program, modelVars, drawVars, loadVars, stepVars>>
    \/ \E h \in Helpers :
           HelperCall(h) /\ UNCHANGED <<program, modelVars, drawVars, loadVars, stepVars>>

Spec == Init /\ [][Next]_vars

\* ------------------------------------------------ the triangle programs
\* The example (examples/triangle/main.rs) and the binary
\* (src/bin/triangle.rs): each has its own WgpuApp and its own shell.
TrianglePrograms == {"triangle_example", "triangle_bin"}

\* size.width.max(1)
AtLeastOne(n) == IF n < 1 THEN 1 ELSE n

\* WgpuApp::new: the binary raises both dimensions of the inner size to at
\* least 1 before it stores and configures; the example takes them as they
\* are.
TriAppNew(p, inner_size) ==
    LET size == IF p = "triangle_bin"
                THEN <<AtLeastOne(inner_size[1]), AtLeastOne(inner_size[2])>>
                ELSE inner_size
    IN [size |-> size, size_changed |-> FALSE, surface_config |-> size]

\* WgpuApp::set_window_resized
tri_set_window_resized(a, new_size) ==
    IF new_size = a.size
    THEN a
    ELSE [a EXCEPT !.size = new_size, !.size_changed = TRUE]

\* WgpuApp::render: it starts with get_current_texture; no statement of it
\* calls resize_surface_if_needed, which no other function calls either.
tri_render(p, a, acquire) ==
    IF acquire # "Ok"
    THEN [app |-> a, ops |-> <<"get_current_texture">>, result |-> acquire]
    ELSE [app |-> a,
          ops |-> <<"get_current_texture", "begin_render_pass">>
                  \o (IF p = "triangle_bin" THEN <<"set_pipeline", "draw">>
                      ELSE <<>>)
                  \o <<"submit", "present">>,
          result |-> "Ok"]

\* The setup calls of `resumed`: the example makes a tokio Runtime, the
\* binary blocks with pollster.
TriSetupCalls(p, upto) ==
    (IF p = "triangle_example" THEN <<"Runtime::new">> ELSE <<>>)
    \o (IF upto = "runtime_failed" THEN <<>>
        ELSE IF upto = "window_failed" THEN <<"create_window">>
        ELSE <<"create_window", "A::new">>)

\* What a handler of a triangle shell leaves in the variables that record it.
TriHandled(ev, sz, cs, ops, res) ==
    /\ Handled(ev, sz)
    /\ calls' = cs
    /\ surfaceOps' = ops
    /\ renderResult' = res
    /\ kbConsumed' = FALSE
    /\ UNCHANGED <<window, program>>

\* The unwrap (example) or the assertion (binary) at the head of
\* window_event, on an absent WgpuApp.
TriWindowEventPanics(ev, sz) ==
    /\ TriHandled(ev, sz, <<>>, <<>>, "none")
    /\ panicked' = TRUE
    /\ UNCHANGED <<app, loop, nNew, nWindows, redrawRequested>>

\* resumed
TriResumed(setup, inner_size) ==
    /\ Delivering
    /\ setup # "load_model_failed"
    /\ (program = "triangle_bin" => setup # "runtime_failed")
    /\ UNCHANGED <<loop, redrawRequested>>
    /\ IF is_some(app)
       THEN /\ TriHandled("Resumed", <<0, 0>>, <<>>, <<>>, "none")
            /\ UNCHANGED <<app, panicked, nNew, nWindows>>
       ELSE /\ TriHandled("Resumed", <<0, 0>>, TriSetupCalls(program, setup),
                          IF setup = "ok" THEN <<"configure">> ELSE <<>>, "none")
            /\ panicked' = (setup # "ok")
            /\ nWindows' = IF setup \in {"ok", "new_failed"}
                           THEN Bump(nWindows) ELSE nWindows
            /\ nNew' = IF setup \in {"ok", "new_failed"} THEN Bump(nNew) ELSE nNew
            /\ app' = IF setup = "ok" THEN Some(TriAppNew(program, inner_size))
                      ELSE app

\* suspended
TriSuspended ==
    /\ Delivering
    /\ TriHandled("Suspended", <<0, 0>>, <<>>, <<>>, "none")
    /\ UNCHANGED <<app, loop, panicked, nNew, nWindows, redrawRequested>>

\* window_event, WindowEvent::CloseRequested
TriCloseRequested ==
    /\ Delivering
    /\ IF ~is_some(app) THEN TriWindowEventPanics("CloseRequested", <<0, 0>>)
       ELSE /\ TriHandled("CloseRequested", <<0, 0>>, <<"exit">>, <<>>, "none")
            /\ loop' = "exiting"
            /\ UNCHANGED <<app, panicked, nNew, nWindows, redrawRequested>>

\* window_event, WindowEvent::Resized(physical_size)
TriResized(sz) ==
    /\ Delivering
    /\ IF ~is_some(app) THEN TriWindowEventPanics("Resized", sz)
       ELSE /\ IF sz[1] = 0 \/ sz[2] = 0
               THEN /\ TriHandled("Resized", sz, <<>>, <<>>, "none")
                    /\ UNCHANGED app
               ELSE /\ TriHandled("Resized", sz, <<"set_window_resized">>,
                                  <<>>, "none")
                    /\ app' = Some(tri_set_window_resized(unwrap(app), sz))
            /\ UNCHANGED <<loop, panicked, nNew, nWindows, redrawRequested>>

\* The keys tried.
Keys == {"Escape", "KeyA"}

\* window_event, WindowEvent::KeyboardInput: the example does nothing; the
\* binary calls exit on Escape.
TriKeyboardInput(key) ==
    /\ Delivering
    /\ IF ~is_some(app) THEN TriWindowEventPanics("KeyboardInput", <<0, 0>>)
       ELSE LET exit == program = "triangle_bin" /\ key = "Escape" IN
            /\ TriHandled("KeyboardInput", <<0, 0>>,
                          IF exit THEN <<"exit">> ELSE <<>>, <<>>, "none")
            /\ loop' = IF exit THEN "exiting" ELSE loop
            /\ UNCHANGED <<app, panicked, nNew, nWindows, redrawRequested>>

\* window_event, WindowEvent::RedrawRequested
TriRedrawRequested(acquire) ==
    /\ Delivering
    /\ IF ~is_some(app) THEN TriWindowEventPanics("RedrawRequested", <<0, 0>>)
       ELSE LET r == tri_render(program, unwrap(app), acquire)
                log == CASE r.result = "Ok" -> <<>>
                         [] r.result = "Lost" -> <<"eprintln:Surface is lost">>
                         [] OTHER -> <<"eprintln:error">>
            IN /\ TriHandled("RedrawRequested", <<0, 0>>,
                             <<"pre_present_notify", "render">> \o log
                                 \o <<"request_redraw">>,
                             r.ops, r.result)
               /\ app' = Some(r.app)
               /\ redrawRequested' = TRUE
               /\ UNCHANGED <<loop, panicked, nNew, nWindows>>

\* window_event, any other WindowEvent
TriOtherWindowEvent ==
    /\ Delivering
    /\ IF ~is_some(app) THEN TriWindowEventPanics("Other", <<0, 0>>)
       ELSE /\ TriHandled("Other", <<0, 0>>, <<>>, <<>>, "none")
            /\ UNCHANGED <<app, loop, panicked, nNew, nWindows, redrawRequested>>

\* Either triangle program, its shell just made by WgpuAppHandler::default().
TriShellInit ==
    /\ app = None
    /\ window = None
    /\ loop = "running"
    /\ panicked = FALSE
    /\ nNew = 0
    /\ nWindows = 0
    /\ redrawRequested = FALSE
    /\ lastEvent = "none"
    /\ lastSize = <<0, 0>>
    /\ calls = <<>>
    /\ surfaceOps = <<>>
    /\ renderResult = "none"
    /\ kbConsumed = FALSE
    /\ tick = FALSE
    /\ program \in TrianglePrograms

InitTriangle == TriShellInit /\ ModelIdle /\ DrawIdle /\ LoadIdle /\ StepIdle

NextTriangle ==
    \/ \E setup \in SetupOutcomes, sz \in Sizes :
           TriResumed(setup, sz) /\ UNCHANGED <<modelVars, drawVars, loadVars, stepVars>>
    \/ TriSuspended /\ UNCHANGED <<modelVars, drawVars, loadVars, stepVars>>
    \/ TriCloseRequested /\ UNCHANGED <<modelVars, drawVars, loadVars, stepVars>>
    \/ \E sz \in Sizes :
           TriResized(sz) /\ UNCHANGED <<modelVars, drawVars, loadVars, stepVars>>
    \/ \E k \in Keys :
           TriKeyboardInput(k) /\ UNCHANGED <<modelVars, drawVars, loadVars, stepVars>>
    \/ \E r \in AcquireResults :
           TriRedrawRequested(r) /\ UNCHANGED <<modelVars, drawVars, loadVars, stepVars>>
    \/ TriOtherWindowEvent /\ UNCHANGED <<modelVars, drawVars, loadVars, stepVars>>
    \/ LoopExit /\ UNCHANGED <<program, modelVars, drawVars, loadVars, stepVars>>

SpecTriangle == InitTriangle /\ [][NextTriangle]_vars

\* ----------------------------------- the handlers, statement by statement
\* Mutant: the guard of the presence check lives to the end of `resumed`,
\* as the scrutinee of an `if let` would.
resumed_program_guard_kept ==
    <<"lock", "is_some", "return_if_present",
      "Runtime::new", "create_window", "A::new", "block_on",
      "lock", "replace_app", "unlock",
      "replace_window", "unlock", "ret">>

\* The statements of `resumed` in program order. The guard taken in the
\* condition of the `if` is a temporary of the condition and is dropped
\* before the body; the guard taken for `replace` is dropped at the end of
\* its statement. A::new makes the future, block_on runs it to its end.
resumed_program ==
    <<"lock", "is_some", "unlock", "return_if_present",
      "Runtime::new", "create_window", "A::new", "block_on",
      "lock", "replace_app", "unlock",
      "replace_window", "ret">>

\* The statements of `suspended`.
suspended_program == <<"ret">>

\* The statements of the arm of window_event's match taken for an event.
arm_program(ev, sz) ==
    CASE ev = "CloseRequested" -> <<"exit">>
      [] ev = "Resized" ->
            IF is_minimized(sz) THEN <<>> ELSE <<"set_window_resized">>
      [] ev = "KeyboardInput" -> <<"keyboard_input">>
      [] ev = "RedrawRequested" -> redraw_steps
      [] OTHER -> <<>>

\* The statements of window_event: `guard` is a local of the whole body and
\* is dropped when the handler returns.
window_event_program(ev, sz) ==
    <<"lock", "unwrap_app">> \o arm_program(ev, sz) \o <<"unlock", "ret">>

WindowEvents ==
    {"CloseRequested", "Resized", "KeyboardInput", "RedrawRequested", "Other"}

handler_program(ev, sz) ==
    CASE ev = "Resumed" -> resumed_program
      [] ev = "Suspended" -> suspended_program
      [] OTHER -> window_event_program(ev, sz)

\* Mutant: the thread goes back to the event loop while the future runs.
block_on_yields == FALSE

\* rt.block_on(..) keeps the calling thread until the future has finished.
block_on_blocks == TRUE

\* The event loop calls a handler when the one before has returned; the
\* loop and the handlers share one thread.
CanDeliver ==
    /\ Delivering
    /\ ~mutex.deadlocked
    /\ IF prog = <<>> THEN TRUE
       ELSE Head(prog) = "block_on" /\ ~block_on_blocks

\* The event loop calls the handler of an event.
Deliver(ev, sz) ==
    /\ CanDeliver
    /\ Handled(ev, sz)
    /\ prog' = handler_program(ev, sz) \o prog
    /\ locals' = [NoLocals EXCEPT !.size = sz]
    /\ mutex' = [mutex EXCEPT !.acquired = 0]
    /\ calls' = <<>>
    /\ surfaceOps' = <<>>
    /\ renderResult' = "none"
    /\ kbConsumed' = FALSE
    /\ redrawRequested' = (redrawRequested /\ ev # "RedrawRequested")
    /\ UNCHANGED <<app, window, loop, panicked, nNew, nWindows>>

\* The thread is in a handler and can run its next statement.
InHandler == prog # <<>> /\ ~panicked /\ ~mutex.deadlocked
Next1 == Head(prog)

\* The statements that read or write the Application.
TouchesApp ==
    {"is_some", "replace_app", "unwrap_app", "set_window_resized",
     "keyboard_input", "update", "render"}

\* The mutex record after a statement that touches the Application.
Touched == [mutex EXCEPT !.unguarded = @ \/ ~mutex.held]

\* What is left to run after the handler on top returns or unwinds.
RECURSIVE AfterReturn(_)
AfterReturn(p) ==
    IF p = <<>> THEN <<>>
    ELSE IF Head(p) = "ret" THEN Tail(p)
    ELSE AfterReturn(Tail(p))

\* A panic unwinds the handler: a guard that is alive is dropped, which
\* releases the mutex and poisons it.
Unwind(m) == [m EXCEPT !.held = FALSE, !.poisoned = @ \/ m.held]

\* self.app.lock().unwrap(): std's Mutex deadlocks or panics when the
\* thread that holds it locks it again.
StepLock ==
    /\ InHandler /\ Next1 = "lock"
    /\ IF mutex.held
       THEN \/ /\ mutex' = [mutex EXCEPT !.deadlocked = TRUE]
               /\ UNCHANGED <<panicked, prog, locals>>
            \/ /\ panicked' = TRUE
               /\ mutex' = Unwind(mutex)
               /\ prog' = AfterReturn(prog)
               /\ locals' = NoLocals
       ELSE /\ mutex' = [mutex EXCEPT !.held = TRUE, !.acquired = @ + 1]
            /\ prog' = Tail(prog)
            /\ UNCHANGED <<panicked, locals>>
    /\ UNCHANGED <<app, window, loop, nNew, nWindows, redrawRequested, lastEvent,
                   lastSize, calls, surfaceOps, renderResult, kbConsumed, tick>>

\* A MutexGuard is dropped.
StepUnlock ==
    /\ InHandler /\ Next1 = "unlock"
    /\ mutex' = [mutex EXCEPT !.held = FALSE]
    /\ prog' = Tail(prog)
    /\ UNCHANGED <<shellVars, locals>>

\* The handler returns: its locals are dropped.
StepReturn ==
    /\ InHandler /\ Next1 = "ret"
    /\ prog' = Tail(prog)
    /\ locals' = NoLocals
    /\ UNCHANGED <<shellVars, mutex>>

\* A statement of `resumed`. `setup` is how far the setup gets,
\* `inner_size` the size of the window made, `obj_model` what load_model
\* returns. A failing statement panics and unwinds: the locals are dropped.
StepResumed(setup, inner_size, obj_model) ==
    /\ InHandler
    /\ Next1 \in {"is_some", "return_if_present", "Runtime::new",
                   "create_window", "A::new", "block_on", "replace_app",
                   "replace_window"}
    /\ UNCHANGED <<loop, redrawRequested, lastEvent, lastSize, renderResult,
                   kbConsumed, tick>>
    /\ CASE Next1 = "is_some" ->
                /\ locals' = [locals EXCEPT !.present = is_some(app)]
                /\ mutex' = Touched
                /\ prog' = Tail(prog)
                /\ UNCHANGED <<app, window, panicked, nNew, nWindows, calls,
                               surfaceOps>>
         [] Next1 = "return_if_present" ->
                /\ prog' = IF locals.present THEN AfterReturn(prog) ELSE Tail(prog)
                /\ locals' = IF locals.present THEN NoLocals ELSE locals
                /\ UNCHANGED <<app, window, panicked, nNew, nWindows, calls,
                               surfaceOps, mutex>>
         [] Next1 = "Runtime::new" ->
                LET ok == setup # "runtime_failed" IN
                /\ calls' = calls \o <<"Runtime::new">>
                /\ panicked' = (~ok /\ setup_failure_aborts)
                /\ prog' = IF ok THEN Tail(prog) ELSE AfterReturn(prog)
                /\ locals' = IF ok THEN locals ELSE NoLocals
                /\ mutex' = IF ok THEN mutex ELSE Unwind(mutex)
                /\ UNCHANGED <<app, window, nNew, nWindows, surfaceOps>>
         [] Next1 = "create_window" ->
                LET ok == setup # "window_failed" IN
                /\ calls' = calls \o <<"create_window">>
                /\ panicked' = (~ok /\ setup_failure_aborts)
                /\ prog' = IF ok THEN Tail(prog) ELSE AfterReturn(prog)
                /\ nWindows' = IF ok THEN Bump(nWindows) ELSE nWindows
                /\ locals' = IF ok THEN [locals EXCEPT !.window = Some(Bump(nWindows)),
                                                       !.size = inner_size]
                              ELSE NoLocals
                /\ mutex' = IF ok THEN mutex ELSE Unwind(mutex)
                /\ UNCHANGED <<app, window, nNew, surfaceOps>>
         [] Next1 = "A::new" ->
                /\ calls' = calls \o <<"A::new">>
                /\ nNew' = Bump(nNew)
                /\ prog' = Tail(prog)
                /\ UNCHANGED <<app, window, panicked, nWindows, surfaceOps,
                               locals, mutex>>
         [] Next1 = "block_on" ->
                LET ok == setup \notin {"new_failed", "load_model_failed"} IN
                /\ panicked' = (~ok /\ setup_failure_aborts)
                /\ prog' = IF ok THEN Tail(prog) ELSE AfterReturn(prog)
                /\ locals' = IF ok
                              THEN [locals EXCEPT !.wgpu_app =
                                       Some(AppNew(locals.size, obj_model))]
                              ELSE NoLocals
                /\ mutex' = IF ok THEN mutex ELSE Unwind(mutex)
                /\ surfaceOps' = IF setup = "new_failed" THEN surfaceOps
                                  ELSE AppNewOps
                /\ UNCHANGED <<app, window, nNew, nWindows, calls>>
         [] Next1 = "replace_app" ->
                /\ app' = locals.wgpu_app
                /\ mutex' = Touched
                /\ prog' = Tail(prog)
                /\ UNCHANGED <<window, panicked, nNew, nWindows, calls,
                               surfaceOps, locals>>
         [] Next1 = "replace_window" ->
                /\ window' = locals.window
                /\ prog' = Tail(prog)
                /\ UNCHANGED <<app, panicked, nNew, nWindows, calls, surfaceOps,
                               locals, mutex>>

\* A statement of window_event between its lock and the drop of its guard.
\* `consumed` is what keyboard_input returns, `acquire` what
\* get_current_texture returns. A panic (the unwrap of an absent
\* Application, the abort of a draw inside render) unwinds the handler and
\* drops its guard.
StepWindowEvent(consumed, acquire) ==
    LET touched == IF Next1 \in TouchesApp THEN Touched ELSE mutex IN
    /\ InHandler
    /\ Next1 \in {"unwrap_app", "exit", "set_window_resized", "keyboard_input",
                   "update", "pre_present_notify", "render", "request_redraw"}
    /\ UNCHANGED <<window, nNew, nWindows, lastEvent, lastSize, tick>>
    /\ IF ~is_some(app)
       THEN \* guard.as_mut().unwrap() on None
            /\ panicked' = TRUE
            /\ mutex' = Unwind(touched)
            /\ prog' = AfterReturn(prog)
            /\ locals' = NoLocals
            /\ UNCHANGED <<app, loop, redrawRequested, calls, surfaceOps,
                           renderResult, kbConsumed>>
       ELSE CASE Next1 = "unwrap_app" ->
                    /\ prog' = Tail(prog)
                    /\ mutex' = touched
                    /\ UNCHANGED <<app, loop, redrawRequested, calls, surfaceOps,
                                   renderResult, kbConsumed, panicked, locals>>
              [] Next1 = "exit" ->
                    /\ prog' = Tail(prog)
                    /\ mutex' = touched
                    /\ loop' = "exiting"
                    /\ calls' = calls \o <<"exit">>
                    /\ UNCHANGED <<app, redrawRequested, surfaceOps,
                                   renderResult, kbConsumed, panicked, locals>>
              [] Next1 = "set_window_resized" ->
                    /\ prog' = Tail(prog)
                    /\ mutex' = touched
                    /\ app' = Some(set_window_resized(unwrap(app), locals.size))
                    /\ calls' = calls \o <<"set_window_resized">>
                    /\ UNCHANGED <<loop, redrawRequested, surfaceOps,
                                   renderResult, kbConsumed, panicked, locals>>
              [] Next1 = "keyboard_input" ->
                    /\ prog' = Tail(prog)
                    /\ mutex' = touched
                    /\ kbConsumed' = consumed
                    /\ calls' = calls \o <<"keyboard_input">>
                    /\ UNCHANGED <<app, loop, redrawRequested, surfaceOps,
                                   renderResult, panicked, locals>>
              [] OTHER ->
                    LET s0 == [app |-> unwrap(app), calls |-> calls,
                               ops |-> surfaceOps, result |-> renderResult,
                               redraw |-> redrawRequested, exit |-> FALSE,
                               panicked |-> FALSE]
                        s == RedrawStep(Next1, s0, acquire)
                    IN /\ app' = Some(s.app)
                       /\ calls' = s.calls
                       /\ surfaceOps' = s.ops
                       /\ renderResult' = s.result
                       /\ redrawRequested' = s.redraw
                       /\ loop' = IF s.exit THEN "exiting" ELSE loop
                       /\ panicked' = s.panicked
                       /\ prog' = IF s.panicked THEN AfterReturn(prog)
                                  ELSE Tail(prog)
                       /\ mutex' = IF s.panicked THEN Unwind(touched) ELSE touched
                       /\ locals' = IF s.panicked THEN NoLocals ELSE locals
                       /\ UNCHANGED kbConsumed

\* The owner calls a public helper of the handler, outside every handler.
StepHelperCall(h) ==
    /\ prog = <<>>
    /\ ~mutex.deadlocked
    /\ HelperCall(h)
    /\ UNCHANGED stepVars

\* The event loop ends, between two events, after exit() was signalled.
StepLoopExit ==
    /\ prog = <<>>
    /\ LoopExit
    /\ UNCHANGED stepVars

InitSteps == ShellInit /\ ModelIdle /\ DrawIdle /\ LoadIdle /\ StepIdle

Events == {"Resumed", "Suspended"} \cup WindowEvents

NextSteps ==
    \/ \E ev \in Events, sz \in Sizes :
           /\ (ev # "Resized" => sz = <<0, 0>>)
           /\ Deliver(ev, sz)
           /\ UNCHANGED <<program, modelVars, drawVars, loadVars>>
    \/ StepLock /\ UNCHANGED <<program, modelVars, drawVars, loadVars>>
    \/ StepUnlock /\ UNCHANGED <<modelVars, drawVars, loadVars>>
    \/ StepReturn /\ UNCHANGED <<modelVars, drawVars, loadVars>>
    \/ \E setup \in SetupOutcomes, sz \in Sizes, m \in LoadedModels :
           StepResumed(setup, sz, m) /\ UNCHANGED <<program, modelVars, drawVars, loadVars>>
    \/ \E c \in BOOLEAN, r \in AcquireResults :
           StepWindowEvent(c, r) /\ UNCHANGED <<program, modelVars, drawVars, loadVars>>
    \/ StepLoopExit /\ UNCHANGED <<program, modelVars, drawVars, loadVars>>
    \/ \E h \in Helpers :
           StepHelperCall(h) /\ UNCHANGED <<program, modelVars, drawVars, loadVars>>

SpecSteps == InitSteps /\ [][NextSteps]_vars


\* ================================================================ Model<V>
\* Longest vertex and index sequence tried.
MaxLen == 3

\* Vertices of a two-word vertex type V, each word 32 bits wide.
VertexPool == {<<0, 0>>, <<1, 258>>}
\* 32-bit indices, one of them wider than a byte.
IndexPool == {0, 1, 2, 258}

RECURSIVE SeqsUpTo(_, _)
SeqsUpTo(S, n) ==
    IF n = 0 THEN {<<>>}
    ELSE LET shorter == SeqsUpTo(S, n - 1) IN
         shorter \cup {Append(s, x) : s \in {q \in shorter : Len(q) = n - 1}, x \in S}

\* The four little-endian bytes of a 32-bit word.
WordBytes(w) ==
    <<w % 256, (w \div 256) % 256, (w \div 65536) % 256, (w \div 16777216) % 256>>

RECURSIVE Flatten(_)
Flatten(ss) == IF ss = <<>> THEN <<>> ELSE Head(ss) \o Flatten(Tail(ss))

\* bytemuck::cast_slice on &[u32]
IndexBytes(is) == Flatten([k \in 1..Len(is) |-> WordBytes(is[k])])
\* bytemuck::cast_slice on &[V]
VertexBytes(vs) ==
    Flatten([k \in 1..Len(vs) |->
                Flatten([j \in 1..Len(vs[k]) |-> WordBytes(vs[k][j])])])

\* Model::new
ModelNew(vertices, indices) ==
    [vertices |-> vertices, indices |-> indices,
     vertex_buffer |-> None, index_buffer |-> None]

\* The initial contents of the vertex buffer.
vertex_buffer_contents(m) == VertexBytes(m.vertices)

\* Mutant: the index buffer is filled from the vertices.
index_buffer_contents_from_vertices(m) == VertexBytes(m.vertices)

\* The initial contents of the index buffer.
index_buffer_contents(m) == IndexBytes(m.indices)

\* Mutant: alloc_buffer without its assertions.
alloc_asserts_removed(m) == TRUE

\* The two assertions at the head of alloc_buffer.
alloc_asserts_hold(m) == ~is_some(m.vertex_buffer) /\ ~is_some(m.index_buffer)

\* Model::alloc_buffer
AllocBuffer ==
    /\ ~modelPanicked
    /\ IF ~alloc_asserts_hold(model)
       THEN /\ modelPanicked' = TRUE
            /\ UNCHANGED <<model, deviceBuffers>>
       ELSE LET vb == [id |-> Len(deviceBuffers) + 1, usage |-> "VERTEX",
                       contents |-> vertex_buffer_contents(model)]
                ib == [id |-> Len(deviceBuffers) + 2, usage |-> "INDEX",
                       contents |-> index_buffer_contents(model)]
            IN /\ deviceBuffers' = deviceBuffers \o <<vb, ib>>
               /\ model' = [model EXCEPT !.vertex_buffer = Some(vb),
                                         !.index_buffer = Some(ib)]
               /\ UNCHANGED modelPanicked

ShellIdle == ShellInit

ModelInit ==
    /\ \E vs \in SeqsUpTo(VertexPool, MaxLen), is \in SeqsUpTo(IndexPool, MaxLen) :
           model = ModelNew(vs, is)
    /\ modelPanicked = FALSE
    /\ deviceBuffers = <<>>

InitModel == ShellIdle /\ ModelInit /\ DrawIdle /\ LoadIdle /\ StepIdle

NextModel == AllocBuffer /\ UNCHANGED <<shellVars, drawVars, loadVars, stepVars>>

SpecModel == InitModel /\ [][NextModel]_vars

\* ---- a Model whose public `vertices` and `indices` are changed by its owner
\* model.indices.push(i): the field is public.
PushIndex(i) ==
    /\ ~modelPanicked
    /\ Len(model.indices) < MaxLen
    /\ model' = [model EXCEPT !.indices = Append(@, i)]
    /\ UNCHANGED <<modelPanicked, deviceBuffers>>

\* model.indices.clear()
ClearIndices ==
    /\ ~modelPanicked
    /\ model.indices # <<>>
    /\ model' = [model EXCEPT !.indices = <<>>]
    /\ UNCHANGED <<modelPanicked, deviceBuffers>>

\* model.vertices.pop()
PopVertex ==
    /\ ~modelPanicked
    /\ model.vertices # <<>>
    /\ model' = [model EXCEPT !.vertices = SubSeq(@, 1, Len(@) - 1)]
    /\ UNCHANGED <<modelPanicked, deviceBuffers>>

\* Models made by Model::new: any vertices, no index or one triangle.
ModelMutInit ==
    /\ \E vs \in SeqsUpTo(VertexPool, MaxLen), is \in {<<>>, <<0, 1, 2>>} :
           model = ModelNew(vs, is)
    /\ modelPanicked = FALSE
    /\ deviceBuffers = <<>>

InitModelMut == ShellIdle /\ ModelMutInit /\ DrawIdle /\ LoadIdle /\ StepIdle

NextModelMut ==
    \/ AllocBuffer /\ UNCHANGED <<shellVars, drawVars, loadVars, stepVars>>
    \/ PushIndex(258) /\ UNCHANGED <<shellVars, drawVars, loadVars, stepVars>>
    \/ ClearIndices /\ UNCHANGED <<shellVars, drawVars, loadVars, stepVars>>
    \/ PopVertex /\ UNCHANGED <<shellVars, drawVars, loadVars, stepVars>>

SpecModelMut == InitModelMut /\ [][NextModelMut]_vars


\* ================================================================ DrawModel
\* Most meshes and most materials of a MeshModel tried.
MaxMeshes == 2
MaxMaterials == 2

\* A GPU resource handle: what it is and which one.
Res(kind, idx) == [kind |-> kind, idx |-> idx]
NoRes == Res("none", 0)

\* A command recorded in a render pass.
Cmd(op, slot, res, indices, base_vertex, instances) ==
    [op |-> op, slot |-> slot, res |-> res, indices |-> indices,
     base_vertex |-> base_vertex, instances |-> instances]

set_pipeline == Cmd("set_pipeline", 0, Res("pipeline", 0), <<0, 0>>, 0, <<0, 0>>)
set_vertex_buffer(slot, buffer) ==
    Cmd("set_vertex_buffer", slot, buffer, <<0, 0>>, 0, <<0, 0>>)
\* The index format is always IndexFormat::Uint32.
set_index_buffer(buffer) ==
    Cmd("set_index_buffer:Uint32", 0, buffer, <<0, 0>>, 0, <<0, 0>>)
set_bind_group(index, group) ==
    Cmd("set_bind_group", index, group, <<0, 0>>, 0, <<0, 0>>)
draw_indexed(indices, base_vertex, instances) ==
    Cmd("draw_indexed", 0, NoRes, indices, base_vertex, instances)

\* The i-th Mesh of a model owns its own two buffers; it has 3*i indices.
MeshAt(i, material) ==
    [vertex_buffer |-> Res("vertex_buffer", i),
     index_buffer |-> Res("index_buffer", i),
     num_elements |-> 3 * i,
     material |-> material]
\* The j-th Material (0-based, as it is indexed).
MaterialAt(j) == [bind_group |-> Res("material_bind_group", j)]

\* The MeshModels tried: material indices in and out of range.
MeshModels ==
    {[meshes |-> [i \in 1..Len(ms) |-> MeshAt(i, ms[i])],
      materials |-> [j \in 1..n |-> MaterialAt(j - 1)]] :
        ms \in SeqsUpTo(0..MaxMaterials, MaxMeshes), n \in 0..MaxMaterials}

\* Instance ranges first..last (last excluded) and camera bind groups tried.
InstanceRanges == {<<0, 1>>, <<0, 5>>, <<2, 4>>, <<0, 0>>}
Cameras == {Res("camera_bind_group", 1), Res("camera_bind_group", 2)}

\* Mutant: the indexed draw is recorded before the bind groups are set.
draw_mesh_instanced_draw_early(mesh, material, instances, camera_bind_group) ==
    << set_vertex_buffer(0, mesh.vertex_buffer),
       set_index_buffer(mesh.index_buffer),
       draw_indexed(<<0, mesh.num_elements>>, 0, instances),
       set_bind_group(0, material.bind_group),
       set_bind_group(1, camera_bind_group) >>

\* DrawModel::draw_mesh_instanced
draw_mesh_instanced(mesh, material, instances, camera_bind_group) ==
    << set_vertex_buffer(0, mesh.vertex_buffer),
       set_index_buffer(mesh.index_buffer),
       set_bind_group(0, material.bind_group),
       set_bind_group(1, camera_bind_group),
       draw_indexed(<<0, mesh.num_elements>>, 0, instances) >>

\* Mutant: the plain form draws no instance.
draw_mesh_no_instance(mesh, material, camera_bind_group) ==
    draw_mesh_instanced(mesh, material, <<0, 0>>, camera_bind_group)

\* DrawModel::draw_mesh
draw_mesh(mesh, material, camera_bind_group) ==
    draw_mesh_instanced(mesh, material, <<0, 1>>, camera_bind_group)

\* Mutant: every mesh is drawn with the first material.
resolve_first_material(mm, mesh) == mm.materials[1]

\* model.materials[mesh.material], a 0-based index.
resolve_material(mm, mesh) == mm.materials[mesh.material + 1]

\* DrawModel::draw_model_instanced from the i-th mesh on: the commands
\* recorded, and whether the loop aborted on an index out of bounds.
RECURSIVE DrawMeshesFrom(_, _, _, _)
DrawMeshesFrom(mm, i, instances, camera_bind_group) ==
    IF i > Len(mm.meshes) THEN [cmds |-> <<>>, panicked |-> FALSE]
    ELSE LET mesh == mm.meshes[i] IN
         IF ~material_in_bounds(mm, mesh)
         THEN [cmds |-> <<>>, panicked |-> TRUE]
         ELSE LET rest == DrawMeshesFrom(mm, i + 1, instances, camera_bind_group)
              IN [cmds |-> draw_mesh_instanced(mesh, resolve_material(mm, mesh),
                                               instances, camera_bind_group)
                           \o rest.cmds,
                  panicked |-> rest.panicked]

\* The loop of draw_model_instanced with the material looked up only where
\* it exists: a mesh whose material index is out of range is passed over.
RECURSIVE DrawValidMeshesFrom(_, _, _, _)
DrawValidMeshesFrom(mm, i, instances, camera_bind_group) ==
    IF i > Len(mm.meshes) THEN <<>>
    ELSE LET mesh == mm.meshes[i] IN
         (IF material_in_bounds(mm, mesh)
          THEN draw_mesh_instanced(mesh, resolve_material(mm, mesh),
                                   instances, camera_bind_group)
          ELSE <<>>)
         \o DrawValidMeshesFrom(mm, i + 1, instances, camera_bind_group)

\* Mutant: a mesh whose material index is out of range is skipped and the
\* loop goes on.
draw_model_instanced_skipping(mm, instances, camera_bind_group) ==
    [cmds |-> DrawValidMeshesFrom(mm, 1, instances, camera_bind_group),
     panicked |-> FALSE]

\* Mutant: the whole model is drawn with the range [0,1) whatever is asked.
draw_model_instanced_single(mm, instances, camera_bind_group) ==
    DrawMeshesFrom(mm, 1, <<0, 1>>, camera_bind_group)

\* DrawModel::draw_model_instanced
draw_model_instanced(mm, instances, camera_bind_group) ==
    DrawMeshesFrom(mm, 1, instances, camera_bind_group)

\* DrawModel::draw_model
draw_model(mm, camera_bind_group) ==
    draw_model_instanced(mm, <<0, 1>>, camera_bind_group)

\* The layouts the load_model pipeline declares, in slot order: vertex
\* buffer slot 0 per instance and slot 1 per vertex; bind group 0 for the
\* camera and bind group 1 for the texture of a material.
PipelineVertexBuffers == <<"instance_buffer", "vertex_buffer">>
PipelineBindGroups == <<"camera_bind_group", "material_bind_group">>

\* What load_model's render records before it draws the model.
LoadModelPrelude ==
    <<set_pipeline, set_vertex_buffer(0, Res("instance_buffer", 0))>>

\* One draw operation is applied to the pass.
NotDrawnYet == lastDraw.op = "none" /\ ~drawPanicked

DrawModelInstanced(instances, camera) ==
    /\ NotDrawnYet
    /\ LET r == draw_model_instanced(meshModel, instances, camera) IN
       /\ pass' = pass \o r.cmds
       /\ drawPanicked' = r.panicked
    /\ lastDraw' = [op |-> "draw_model_instanced", first |-> instances[1],
                    last |-> instances[2], camera |-> camera.idx,
                    start |-> Len(pass), mesh |-> 0, material |-> 0]
    /\ UNCHANGED meshModel

DrawModelOnce(camera) ==
    /\ NotDrawnYet
    /\ LET r == draw_model(meshModel, camera) IN
       /\ pass' = pass \o r.cmds
       /\ drawPanicked' = r.panicked
    /\ lastDraw' = [op |-> "draw_model", first |-> 0, last |-> 1,
                    camera |-> camera.idx, start |-> Len(pass),
                    mesh |-> 0, material |-> 0]
    /\ UNCHANGED meshModel

\* draw_mesh_instanced called by an application on the i-th mesh with the
\* j-th material of the model.
DrawMeshInstanced(i, j, instances, camera) ==
    /\ NotDrawnYet
    /\ i \in 1..Len(meshModel.meshes)
    /\ j \in 1..Len(meshModel.materials)
    /\ pass' = pass \o draw_mesh_instanced(meshModel.meshes[i],
                                           meshModel.materials[j],
                                           instances, camera)
    /\ lastDraw' = [op |-> "draw_mesh_instanced", first |-> instances[1],
                    last |-> instances[2], camera |-> camera.idx,
                    start |-> Len(pass), mesh |-> i, material |-> j]
    /\ UNCHANGED <<meshModel, drawPanicked>>

\* draw_mesh called on the i-th mesh with the j-th material.
DrawMeshOnce(i, j, camera) ==
    /\ NotDrawnYet
    /\ i \in 1..Len(meshModel.meshes)
    /\ j \in 1..Len(meshModel.materials)
    /\ pass' = pass \o draw_mesh(meshModel.meshes[i], meshModel.materials[j],
                                 camera)
    /\ lastDraw' = [op |-> "draw_mesh", first |-> 0, last |-> 1,
                    camera |-> camera.idx, start |-> Len(pass),
                    mesh |-> i, material |-> j]
    /\ UNCHANGED <<meshModel, drawPanicked>>

DrawInit ==
    /\ meshModel \in MeshModels
    /\ pass \in {<<>>, LoadModelPrelude}
    /\ drawPanicked = FALSE
    /\ lastDraw = [op |-> "none", first |-> 0, last |-> 0, camera |-> 0, start |-> 0,
                 mesh |-> 0, material |-> 0]

InitDraw == ShellIdle /\ ModelIdle /\ DrawInit /\ LoadIdle /\ StepIdle

NextDraw ==
    \/ \E r \in InstanceRanges, c \in Cameras :
           DrawModelInstanced(r, c) /\ UNCHANGED <<shellVars, modelVars, loadVars, stepVars>>
    \/ \E c \in Cameras : DrawModelOnce(c) /\ UNCHANGED <<shellVars, modelVars, loadVars, stepVars>>
    \/ \E i \in 1..MaxMeshes, j \in 1..MaxMaterials,
          r \in InstanceRanges, c \in Cameras :
           DrawMeshInstanced(i, j, r, c) /\ UNCHANGED <<shellVars, modelVars, loadVars, stepVars>>
    \/ \E i \in 1..MaxMeshes, j \in 1..MaxMaterials, c \in Cameras :
           DrawMeshOnce(i, j, c) /\ UNCHANGED <<shellVars, modelVars, loadVars, stepVars>>

SpecDraw == InitDraw /\ [][NextDraw]_vars

\* ========================================================== resource loader
\* File names asked for: two relative ones and an absolute one.
AbsoluteNames == {"/abs/secret.txt"}
FileNames == {"cube.obj", "cube.png"} \cup AbsoluteNames

\* Path::is_absolute, of a file name.
is_absolute(name) == name \in AbsoluteNames

\* PathBuf::join: an absolute path joined to a path replaces it.
join(path, name) == IF is_absolute(name) THEN <<name>> ELSE Append(path, name)

\* What std::env::current_dir gives: a directory whose name is valid UTF-8,
\* one whose name is not, or an error.
CwdOutcomes ==
    {[kind |-> "ok", dir |-> <<"work">>, utf8 |-> TRUE],
     [kind |-> "ok", dir |-> <<"work_not_utf8">>, utf8 |-> FALSE],
     [kind |-> "err", dir |-> <<>>, utf8 |-> TRUE]}

\* current_dir().join("res").join("cube").join(file_name)
asset_path(dir, file_name) == join(join(join(dir, "res"), "cube"), file_name)
\* The file of that name directly under the working directory.
beside_path(dir, file_name) == join(dir, file_name)
\* The entry of that name in <working directory>/res/cube.
under_assets(dir, file_name) == dir \o <<"res", "cube", file_name>>

\* The paths a file system is drawn over.
PathsUnder(dir) ==
    {asset_path(dir, f) : f \in FileNames}
        \cup {beside_path(dir, f) : f \in FileNames}
        \cup {under_assets(dir, f) : f \in FileNames}

\* What reading a path gives: its bytes (text, or bytes that are not UTF-8)
\* or an io error.
ReadOutcomes ==
    {[kind |-> "data", bytes |-> <<104, 105>>, utf8 |-> TRUE],
     [kind |-> "data", bytes |-> <<255>>, utf8 |-> FALSE],
     [kind |-> "NotFound", bytes |-> <<>>, utf8 |-> TRUE],
     [kind |-> "PermissionDenied", bytes |-> <<>>, utf8 |-> TRUE]}

\* What Texture::from_bytes makes of the bytes it is given.
DecodeOutcomes == {"texture", "decode_error"}

\* What an operation of the loader did: the paths it read, the decodes it
\* asked for, what it returned, whether it panicked instead of returning.
Done(reads, decodes, result, p) ==
    [reads |-> reads, decodes |-> decodes, result |-> result, panicked |-> p]

\* std::fs::read(path)
fs_read(env, path) ==
    LET o == env.fs[path] IN
    IF o.kind = "data" THEN Ok(o.bytes) ELSE Err(o.kind)

\* std::fs::read_to_string(path): bytes that are not UTF-8 are an error.
fs_read_to_string(env, path) ==
    LET o == env.fs[path] IN
    IF o.kind # "data" THEN Err(o.kind)
    ELSE IF ~o.utf8 THEN Err("InvalidData")
    ELSE Ok(o.bytes)

\* path.to_str() of the joined path is Some: the path is valid UTF-8. The
\* working directory is part of the joined path unless the file name is
\* absolute and has replaced it; the file names asked for are valid UTF-8.
to_str_is_some(env, file_name) == is_absolute(file_name) \/ env.cwd.utf8

\* load_binary: `current_dir()?`, the println with `path.to_str().unwrap()`,
\* then `std::fs::read(path)?`.
load_binary(env, file_name) ==
    IF env.cwd.kind = "err" THEN Done(<<>>, <<>>, Err("current_dir"), FALSE)
    ELSE IF ~to_str_is_some(env, file_name) THEN Done(<<>>, <<>>, NoResult, TRUE)
    ELSE LET path == asset_path(env.cwd.dir, file_name)
         IN Done(<<path>>, <<>>, fs_read(env, path), FALSE)

\* load_string
load_string(env, file_name) ==
    IF env.cwd.kind = "err" THEN Done(<<>>, <<>>, Err("current_dir"), FALSE)
    ELSE IF ~to_str_is_some(env, file_name) THEN Done(<<>>, <<>>, NoResult, TRUE)
    ELSE LET path == asset_path(env.cwd.dir, file_name)
         IN Done(<<path>>, <<>>, fs_read_to_string(env, path), FALSE)

\* Texture::from_bytes(device, queue, &data, file_name): a texture made of
\* the bytes, or a decode error.
from_bytes(env, data, label) ==
    IF env.decode = "texture" THEN [kind |-> "texture", err |-> "", data |-> data]
    ELSE Err("decode_error")

\* load_texture: `load_binary(file_name).await?`, then the decode.
load_texture(env, file_name) ==
    LET b == load_binary(env, file_name) IN
    IF b.panicked \/ b.result.kind # "ok" THEN b
    ELSE Done(b.reads, <<[data |-> b.result.data, label |-> file_name]>>,
              from_bytes(env, b.result.data, file_name), FALSE)

NotLoadedYet == loadOut.op = "none"

Loaded(op, file_name, d) ==
    loadOut' = [op |-> op, file |-> file_name, reads |-> d.reads,
                decodes |-> d.decodes, result |-> d.result,
                panicked |-> d.panicked]

LoadString(file_name) ==
    /\ NotLoadedYet
    /\ Loaded("load_string", file_name, load_string(loadEnv, file_name))
    /\ UNCHANGED loadEnv

LoadBinary(file_name) ==
    /\ NotLoadedYet
    /\ Loaded("load_binary", file_name, load_binary(loadEnv, file_name))
    /\ UNCHANGED loadEnv

LoadTexture(file_name) ==
    /\ NotLoadedYet
    /\ Loaded("load_texture", file_name, load_texture(loadEnv, file_name))
    /\ UNCHANGED loadEnv

\* Any working directory, any content of the paths under it, any verdict of
\* the decoder; no operation called yet.
LoadInit ==
    /\ \E cwd \in CwdOutcomes, d \in DecodeOutcomes :
           \E fs \in [PathsUnder(cwd.dir) -> ReadOutcomes] :
               loadEnv = [cwd |-> cwd, fs |-> fs, decode |-> d]
    /\ loadOut = [op |-> "none", file |-> "", reads |-> <<>>, decodes |-> <<>>,
                  result |-> NoResult, panicked |-> FALSE]

InitLoad == ShellIdle /\ ModelIdle /\ DrawIdle /\ LoadInit /\ StepIdle

NextLoad ==
    \/ \E f \in FileNames : LoadString(f) /\ UNCHANGED <<shellVars, modelVars, drawVars, stepVars>>
    \/ \E f \in FileNames : LoadBinary(f) /\ UNCHANGED <<shellVars, modelVars, drawVars, stepVars>>
    \/ \E f \in FileNames : LoadTexture(f) /\ UNCHANGED <<shellVars, modelVars, drawVars, stepVars>>

SpecLoad == InitLoad /\ [][NextLoad]_vars


\* ================================================================ properties
Running == is_some(app)
HandlerRan == tick' # tick
Has(seq, x) == \E k \in 1..Len(seq) : seq[k] = x
Only(seq, S) == SelectSeq(seq, LAMBDA c : c \in S)

\* C1: the Application is constructed at most once and, when present, exactly
\* once, by a `resumed`; the first successful `resumed` creates one window and
\* runs A::new once; a `resumed` while an Application is present makes no call
\* and leaves the Application, the window and both counts as they were.
C1_ConstructedOnce ==
    [][ /\ nNew' <= 1 /\ nWindows' <= 1
        /\ (is_some(app') => nNew' = 1 /\ nWindows' = 1 /\ is_some(window'))
        /\ (~Running /\ is_some(app') =>
                lastEvent' = "Resumed" /\ nNew' = nNew + 1 /\ nWindows' = nWindows + 1)
        /\ (HandlerRan /\ lastEvent' = "Resumed" /\ ~Running /\ ~panicked' =>
                is_some(app'))
        /\ (HandlerRan /\ lastEvent' = "Resumed" /\ Running =>
                /\ UNCHANGED <<app, window, nNew, nWindows>>
                /\ calls' = <<>> /\ surfaceOps' = <<>>)
      ]_vars

\* A second `resumed` was handled while Running.
C1_Witness ==
    /\ Running /\ lastEvent = "Resumed" /\ calls = <<>> /\ nNew = 1

\* C3: while Running, a Resized event with a zero width or height makes no
\* call on the Application and leaves it (size, size_changed, surface
\* configuration) unchanged; a render that follows it with no resize pending
\* does not reconfigure the surface.
C3_ZeroResizeIgnored ==
    [][ /\ (HandlerRan /\ lastEvent' = "Resized" /\ Running
              /\ (lastSize'[1] = 0 \/ lastSize'[2] = 0) =>
                app' = app /\ calls' = <<>> /\ surfaceOps' = <<>>)
        /\ (HandlerRan /\ lastEvent' = "RedrawRequested" /\ Running
              /\ lastEvent = "Resized" /\ (lastSize[1] = 0 \/ lastSize[2] = 0)
              /\ ~unwrap(app).size_changed =>
                /\ ~Has(surfaceOps', "configure")
                /\ unwrap(app').surface_config = unwrap(app).surface_config
                /\ unwrap(app').size = unwrap(app).size)
      ]_vars

\* A Resized event with one zero dimension was handled while the stored size
\* was nonzero and a resize was pending.
C3_Witness ==
    /\ Running /\ lastEvent = "Resized"
    /\ lastSize[1] = 0 /\ lastSize[2] # 0
    /\ unwrap(app).size[1] # 0 /\ unwrap(app).size[2] # 0
    /\ unwrap(app).size_changed

\* C4: while Running, a Resized event with nonzero width and height records
\* the size and the pending flag and changes nothing else (the surface
\* configuration is as before, no surface operation is performed); the surface
\* configuration changes only in a redraw-request's render call.
C4_ResizeDeferred ==
    [][ /\ (HandlerRan /\ lastEvent' = "Resized" /\ Running
              /\ lastSize'[1] # 0 /\ lastSize'[2] # 0 =>
                /\ is_some(app')
                /\ unwrap(app').surface_config = unwrap(app).surface_config
                /\ unwrap(app').size = lastSize'
                /\ unwrap(app').size_changed =
                       (unwrap(app).size_changed \/ lastSize' # unwrap(app).size)
                /\ surfaceOps' = <<>>
                /\ UNCHANGED <<window, loop, panicked, redrawRequested>>)
        /\ (Running /\ is_some(app')
              /\ unwrap(app').surface_config # unwrap(app).surface_config =>
                /\ lastEvent' = "RedrawRequested"
                /\ Has(calls', "render")
                /\ Has(surfaceOps', "configure"))
      ]_vars

\* A nonzero resize is recorded and pending while the surface configuration
\* still holds the size applied before.
C4_Witness ==
    /\ Running /\ lastEvent = "Resized"
    /\ unwrap(app).size = lastSize
    /\ unwrap(app).size_changed
    /\ unwrap(app).surface_config # unwrap(app).size
    /\ unwrap(app).surface_config[1] # 0 /\ unwrap(app).surface_config[2] # 0

\* C5 (as claimed): a render call reconfigures the surface only if the pending
\* logical size differs from the size last applied to the surface.
C5_ReconfigureOnlyIfSizeDiffers ==
    [][ HandlerRan /\ lastEvent' = "RedrawRequested" /\ Running
          /\ Has(surfaceOps', "configure") =>
            unwrap(app).size # unwrap(app).surface_config
      ]_vars

\* C8: a redraw-request handled in Running, whose handler returns, calls
\* update, pre_present_notify, render and request_redraw once each and in
\* that order, update first and request_redraw last. A handler that a draw
\* inside render aborted has made the calls of that order up to render.
C8_RedrawOrder ==
    (lastEvent = "RedrawRequested" /\ Running) =>
        IF panicked
        THEN calls = <<"update", "pre_present_notify", "render">>
        ELSE /\ Only(calls, {"update", "pre_present_notify", "render",
                             "request_redraw"})
                    = <<"update", "pre_present_notify", "render", "request_redraw">>
             /\ Head(calls) = "update"
             /\ calls[Len(calls)] = "request_redraw"

\* A redraw-request was handled whose render returned an error.
C8_Witness ==
    /\ Running /\ lastEvent = "RedrawRequested" /\ renderResult = "Outdated"
    /\ Len(calls) = 5

\* C9: a redraw-request whose render returns an error (render returns; an
\* abort inside the render pass returns nothing) only logs it: exit is
\* not signalled, the Application stays, a redraw is requested again; and
\* whatever the error, the handler leaves the Application, the surface
\* operations and the redraw request that it leaves for Lost.
C9_RenderErrorOnlyLogged ==
    [][ HandlerRan /\ lastEvent' = "RedrawRequested" /\ Running
          /\ renderResult' \notin {"Ok", "Panic"} =>
            /\ loop' = loop /\ ~panicked'
            /\ ~Has(calls', "exit")
            /\ is_some(app') /\ UNCHANGED <<window, nNew, nWindows>>
            /\ redrawRequested'
            /\ calls'[Len(calls')] = "request_redraw"
            /\ Len(calls') = 5
            /\ LET start == [app |-> unwrap(app), calls |-> <<>>, ops |-> <<>>,
                             result |-> "none", redraw |-> FALSE, exit |-> FALSE,
                             panicked |-> FALSE]
                   lost == RunRedraw(redraw_steps, start, "Lost")
               IN /\ app' = Some(lost.app)
                  /\ surfaceOps' = lost.ops
                  /\ redrawRequested' = lost.redraw
                  /\ Len(calls') = Len(lost.calls)
      ]_vars

\* A redraw-request whose render returned Lost was handled with a resize
\* pending, and the loop goes on with a redraw requested.
C9_Witness ==
    /\ Running /\ lastEvent = "RedrawRequested" /\ renderResult = "Lost"
    /\ Has(surfaceOps, "configure")
    /\ redrawRequested /\ loop = "running"

\* C10: exit is called by a handler exactly when it handles CloseRequested in
\* Running; the loop leaves "running" only then; the close handler makes no
\* other call and leaves the Application unchanged.
C10_ExitOnlyOnClose ==
    [][ HandlerRan =>
          /\ (Has(calls', "exit") <=> (lastEvent' = "CloseRequested" /\ Running))
          /\ (loop' # loop => lastEvent' = "CloseRequested" /\ loop' = "exiting")
          /\ (lastEvent' = "CloseRequested" /\ Running =>
                /\ calls' = <<"exit">> /\ loop' = "exiting"
                /\ app' = app /\ surfaceOps' = <<>> /\ renderResult' = "none"
                /\ UNCHANGED <<window, redrawRequested, nNew, nWindows>>)
      ]_vars

\* A close request was handled in Running with a resize still pending.
C10_Witness ==
    /\ Running /\ lastEvent = "CloseRequested" /\ loop = "exiting"
    /\ calls = <<"exit">> /\ unwrap(app).size_changed


\* C2: on a Model made by Model::new the first alloc_buffer succeeds and
\* leaves both buffers present; alloc_buffer on a Model that holds a buffer
\* aborts and creates or replaces no buffer.
C2_AllocOnce ==
    [][ /\ (~is_some(model.vertex_buffer) /\ ~is_some(model.index_buffer)
              /\ deviceBuffers' # deviceBuffers =>
                /\ ~modelPanicked'
                /\ is_some(model'.vertex_buffer) /\ is_some(model'.index_buffer)
                /\ Len(deviceBuffers') = Len(deviceBuffers) + 2)
        /\ (~is_some(model.vertex_buffer) /\ ~is_some(model.index_buffer) =>
                ~modelPanicked' /\ deviceBuffers' # deviceBuffers)
        /\ (is_some(model.vertex_buffer) \/ is_some(model.index_buffer) =>
                modelPanicked' /\ model' = model /\ deviceBuffers' = deviceBuffers)
      ]_vars

\* A second alloc_buffer on a three-vertex model has aborted.
C2_Witness ==
    /\ modelPanicked
    /\ is_some(model.vertex_buffer) /\ is_some(model.index_buffer)
    /\ Len(model.vertices) = 3 /\ Len(deviceBuffers) = 2

\* The positions of the indexed draws the last draw operation recorded.
Draws == {p \in (lastDraw.start + 1)..Len(pass) : pass[p].op = "draw_indexed"}
\* The position of the k-th of them.
KthDraw(k) == CHOOSE p \in Draws : Cardinality({q \in Draws : q <= p}) = k
\* The resource in effect at position p for binding `op` at `slot`.
BoundAt(p, op, slot) ==
    LET qs == {q \in 1..(p - 1) : pass[q].op = op /\ pass[q].slot = slot} IN
    IF qs = {} THEN NoRes
    ELSE pass[CHOOSE q \in qs : \A r \in qs : r <= q].res
AllMaterialsValid ==
    \A i \in 1..Len(meshModel.meshes) :
        meshModel.meshes[i].material < Len(meshModel.materials)

\* C6: for a MeshModel whose material indices are all in range,
\* draw_model_instanced records one indexed draw per mesh in the order of
\* model.meshes, and at the i-th draw the vertex buffer, the index buffer and
\* the material bind group in effect are those of meshes[i] and of
\* materials[meshes[i].material].
C6_MeshesInOrderOwnBindings ==
    (lastDraw.op = "draw_model_instanced" /\ AllMaterialsValid) =>
        /\ ~drawPanicked
        /\ Cardinality(Draws) >= Len(meshModel.meshes)
        /\ \A k \in 1..Len(meshModel.meshes) :
             LET p == KthDraw(k)
                 mesh == meshModel.meshes[k]
             IN /\ BoundAt(p, "set_vertex_buffer", 0) = mesh.vertex_buffer
                /\ BoundAt(p, "set_index_buffer:Uint32", 0) = mesh.index_buffer
                /\ BoundAt(p, "set_bind_group", 0)
                       = meshModel.materials[mesh.material + 1].bind_group
                /\ pass[p].indices = <<0, mesh.num_elements>>

\* Two meshes with different materials, the second mesh using the first
\* material, were drawn after the application's own bindings.
C6_Witness ==
    /\ lastDraw.op = "draw_model_instanced" /\ AllMaterialsValid
    /\ Len(meshModel.meshes) = 2
    /\ meshModel.meshes[1].material = 1 /\ meshModel.meshes[2].material = 0
    /\ lastDraw.start = 2 /\ Cardinality(Draws) = 2

\* C7: draw_model_instanced on n meshes with valid material indices records
\* exactly n indexed draws, each with the instance range given and with the
\* camera given bound at bind group 1; two meshes of material 0 drawn with
\* range [0,5) give exactly two draws of range [0,5) with material 0 bound.
C7_OneDrawPerMeshSameRange ==
    (lastDraw.op = "draw_model_instanced" /\ AllMaterialsValid) =>
        /\ Cardinality(Draws) = Len(meshModel.meshes)
        /\ \A p \in Draws :
             /\ pass[p].instances = <<lastDraw.first, lastDraw.last>>
             /\ pass[p].base_vertex = 0
             /\ BoundAt(p, "set_bind_group", 1)
                    = Res("camera_bind_group", lastDraw.camera)
        /\ ((/\ Len(meshModel.meshes) = 2
             /\ meshModel.meshes[1].material = 0
             /\ meshModel.meshes[2].material = 0
             /\ lastDraw.first = 0
             /\ lastDraw.last = 5) =>
                /\ Cardinality(Draws) = 2
                /\ \A p \in Draws :
                     /\ pass[p].instances = <<0, 5>>
                     /\ BoundAt(p, "set_bind_group", 0)
                            = Res("material_bind_group", 0))

\* Two meshes that both use material 0 were drawn with range [0,5).
C7_Witness ==
    /\ lastDraw.op = "draw_model_instanced"
    /\ Len(meshModel.meshes) = 2 /\ Len(meshModel.materials) >= 1
    /\ meshModel.meshes[1].material = 0 /\ meshModel.meshes[2].material = 0
    /\ lastDraw.first = 0 /\ lastDraw.last = 5
    /\ Cardinality(Draws) = 2 /\ ~drawPanicked


\* C11: once an Application is stored the slot never becomes empty and no
\* other Application is constructed or stored in its place, whatever event is
\* handled; `suspended` makes no call and changes nothing of the shell or of
\* the Application.
C11_NeverReset ==
    [][ /\ (Running => is_some(app') /\ nNew' = nNew /\ nWindows' = nWindows
                        /\ window' = window)
        /\ (Running /\ app' # app => lastEvent' \in {"Resized", "RedrawRequested"})
        /\ (HandlerRan /\ lastEvent' = "Suspended" =>
                /\ UNCHANGED <<app, window, loop, panicked, nNew, nWindows,
                               redrawRequested>>
                /\ calls' = <<>> /\ surfaceOps' = <<>>)
      ]_vars

\* A `suspended` was handled while Running, with a resize pending.
C11_Witness ==
    /\ Running /\ lastEvent = "Suspended" /\ unwrap(app).size_changed /\ nNew = 1

\* C12: while Running, a keyboard event makes exactly one call, to
\* keyboard_input, and whatever that returns the shell is left as it was:
\* same window, loop state, counts and pending redraw request, Application
\* still present, no surface operation.
C12_KeyResultUnused ==
    [][ HandlerRan /\ lastEvent' = "KeyboardInput" /\ Running =>
          /\ calls' = <<"keyboard_input">>
          /\ is_some(app')
          /\ UNCHANGED <<window, loop, panicked, nNew, nWindows, redrawRequested>>
          /\ surfaceOps' = <<>> /\ renderResult' = "none"
      ]_vars

\* A key was handled that the Application consumed, with no redraw pending.
C12_Witness ==
    /\ Running /\ lastEvent = "KeyboardInput" /\ kbConsumed /\ ~redrawRequested

\* C19: a `resumed` that finds no Application and stores none has aborted the
\* process, and a `resumed` that aborts stores neither Application nor
\* window; an aborted process handles nothing more, so no construction is
\* retried and the shell never becomes Running; the slot is written only by a
\* `resumed` all of whose setup steps ran, together with the window.
C19_SetupFailureAborts ==
    [][ /\ ~panicked
        /\ (HandlerRan /\ lastEvent' = "Resumed" /\ panicked' =>
                ~is_some(app') /\ ~is_some(window'))
        /\ (HandlerRan /\ lastEvent' = "Resumed" /\ ~Running /\ ~is_some(app') =>
                panicked')
        /\ (~Running /\ is_some(app') =>
                /\ ~panicked'
                /\ calls' = <<"Runtime::new", "create_window", "A::new">>
                /\ Has(surfaceOps', "configure")
                /\ is_some(window') /\ nNew' = 1)
      ]_vars

\* Application construction failed after the window was created.
C19_Witness ==
    /\ panicked /\ lastEvent = "Resumed" /\ nNew = 1 /\ nWindows = 1
    /\ ~Running /\ ~is_some(window)


\* What the last draw operation appended to the pass.
Recorded == SubSeq(pass, lastDraw.start + 1, Len(pass))
\* The first mesh whose material index is out of range.
FirstInvalidMesh ==
    CHOOSE k \in 1..Len(meshModel.meshes) :
        /\ meshModel.meshes[k].material >= Len(meshModel.materials)
        /\ \A q \in 1..(k - 1) :
               meshModel.meshes[q].material < Len(meshModel.materials)

\* C13: draw_mesh_instanced records exactly five commands, in this order: the
\* mesh's vertex buffer at slot 0, the mesh's index buffer as Uint32, the
\* material's bind group at index 0, the camera bind group at index 1, and one
\* indexed draw over [0, num_elements) with base vertex 0 and the instance
\* range given; what was recorded before is kept.
C13_MeshCommandOrder ==
    lastDraw.op = "draw_mesh_instanced" =>
        LET mesh == meshModel.meshes[lastDraw.mesh]
            material == meshModel.materials[lastDraw.material]
            r == Recorded
        IN /\ Len(r) = 5
           /\ r[1].op = "set_vertex_buffer" /\ r[1].slot = 0
           /\ r[1].res = mesh.vertex_buffer
           /\ r[2].op = "set_index_buffer:Uint32"
           /\ r[2].res = mesh.index_buffer
           /\ r[3].op = "set_bind_group" /\ r[3].slot = 0
           /\ r[3].res = material.bind_group
           /\ r[4].op = "set_bind_group" /\ r[4].slot = 1
           /\ r[4].res = Res("camera_bind_group", lastDraw.camera)
           /\ r[5].op = "draw_indexed"
           /\ r[5].indices = <<0, mesh.num_elements>>
           /\ r[5].base_vertex = 0
           /\ r[5].instances = <<lastDraw.first, lastDraw.last>>
           /\ \A p \in Draws : \A q \in (lastDraw.start + 1)..Len(pass) :
                  pass[q].op # "draw_indexed" => q < p
           /\ (lastDraw.start = 2 => SubSeq(pass, 1, 2) = LoadModelPrelude)
           /\ ~drawPanicked

\* The second mesh was drawn with the first material and range [2,4) after
\* the application's own bindings.
C13_Witness ==
    /\ lastDraw.op = "draw_mesh_instanced"
    /\ lastDraw.mesh = 2 /\ lastDraw.material = 1
    /\ lastDraw.first = 2 /\ lastDraw.last = 4
    /\ lastDraw.start = 2 /\ Len(pass) = 7

\* C14: what draw_mesh records is what draw_mesh_instanced records for the
\* same mesh, material and camera with the range [0,1); what draw_model
\* records, and whether it aborts, is what draw_model_instanced does for the
\* same model and camera with the range [0,1).
C14_PlainFormsAreRangeZeroOne ==
    /\ (lastDraw.op = "draw_mesh" =>
            /\ Recorded = draw_mesh_instanced(
                              meshModel.meshes[lastDraw.mesh],
                              meshModel.materials[lastDraw.material],
                              <<0, 1>>,
                              Res("camera_bind_group", lastDraw.camera))
            /\ \A p \in Draws : pass[p].instances = <<0, 1>>
            /\ ~drawPanicked)
    /\ (lastDraw.op = "draw_model" =>
            LET r == draw_model_instanced(
                         meshModel, <<0, 1>>,
                         Res("camera_bind_group", lastDraw.camera))
            IN /\ Recorded = r.cmds
               /\ drawPanicked = r.panicked
               /\ \A p \in Draws : pass[p].instances = <<0, 1>>)

\* draw_mesh was called on the first mesh with the second material.
C14_Witness ==
    /\ lastDraw.op = "draw_mesh"
    /\ lastDraw.mesh = 1 /\ lastDraw.material = 2
    /\ Cardinality(Draws) = 1

\* C15: when some mesh's material index is not below the number of
\* materials, draw_model_instanced aborts at the first such mesh: every
\* earlier mesh has been drawn with its own buffers and stays recorded,
\* nothing is bound or drawn for that mesh or for any later one, and what was
\* in the pass before is kept.
C15_BadMaterialAbortsAtThatMesh ==
    (lastDraw.op = "draw_model_instanced" /\ ~AllMaterialsValid) =>
        LET f == FirstInvalidMesh IN
        /\ drawPanicked
        /\ Cardinality(Draws) = f - 1
        /\ \A k \in 1..(f - 1) :
               /\ BoundAt(KthDraw(k), "set_vertex_buffer", 0)
                      = meshModel.meshes[k].vertex_buffer
               /\ pass[KthDraw(k)].instances = <<lastDraw.first, lastDraw.last>>
        /\ \A p \in (lastDraw.start + 1)..Len(pass) :
               \A k \in f..Len(meshModel.meshes) :
                   pass[p].res \notin {meshModel.meshes[k].vertex_buffer,
                                       meshModel.meshes[k].index_buffer}
        /\ (Len(pass) > lastDraw.start => pass[Len(pass)].op = "draw_indexed")
        /\ (lastDraw.start = 2 => SubSeq(pass, 1, 2) = LoadModelPrelude)

\* The first mesh was drawn and the second, whose material index equals the
\* number of materials, aborted the call.
C15_Witness ==
    /\ lastDraw.op = "draw_model_instanced" /\ drawPanicked
    /\ Len(meshModel.meshes) = 2 /\ Len(meshModel.materials) = 1
    /\ meshModel.meshes[1].material = 0 /\ meshModel.meshes[2].material = 1
    /\ Cardinality(Draws) = 1


\* The 32-bit little-endian word that starts after the first `off` bytes.
WordAt(bytes, off) ==
    bytes[off + 1] + 256 * bytes[off + 2] + 65536 * bytes[off + 3]
        + 16777216 * bytes[off + 4]
\* The size in bytes of a vertex value.
size_of(v) == 4 * Len(v)

\* C16: the buffers alloc_buffer creates hold the vertices and the indices as
\* they are at the call: the index buffer has four bytes per index and the
\* vertex buffer the size of a vertex per vertex (twelve bytes and three
\* vertex sizes for three vertices and the indices 0,1,2), every word read
\* back equals the element it was made from, and the call leaves both
\* sequences as they were. Once the buffers exist, pushing or clearing
\* indices or popping vertices changes neither buffer.
C16_BuffersAreSnapshots ==
    [][ /\ (deviceBuffers' # deviceBuffers =>
              LET vb == unwrap(model'.vertex_buffer).contents
                  ib == unwrap(model'.index_buffer).contents
              IN /\ Len(ib) = 4 * Len(model.indices)
                 /\ \A k \in 1..Len(model.indices) :
                        WordAt(ib, 4 * (k - 1)) = model.indices[k]
                 /\ \A k \in 1..Len(model.vertices) :
                        /\ size_of(model.vertices[k]) = size_of(model.vertices[1])
                        /\ \A j \in 1..Len(model.vertices[k]) :
                               WordAt(vb, size_of(model.vertices[1]) * (k - 1)
                                              + 4 * (j - 1))
                                   = model.vertices[k][j]
                 /\ (model.vertices # <<>> =>
                        Len(vb) = size_of(model.vertices[1]) * Len(model.vertices))
                 /\ (model.vertices = <<>> => vb = <<>>)
                 /\ (Len(model.vertices) = 3 /\ model.indices = <<0, 1, 2>> =>
                        Len(ib) = 12 /\ Len(vb) = 3 * size_of(model.vertices[1]))
                 /\ model'.vertices = model.vertices
                 /\ model'.indices = model.indices)
        /\ (is_some(model.vertex_buffer) \/ is_some(model.index_buffer) =>
                /\ model'.vertex_buffer = model.vertex_buffer
                /\ model'.index_buffer = model.index_buffer
                /\ deviceBuffers' = deviceBuffers)
      ]_vars

\* Buffers made from three vertices and the indices 0,1,2; afterwards a
\* vertex was popped and the indices were cleared and one was pushed.
C16_Witness ==
    /\ is_some(model.vertex_buffer) /\ is_some(model.index_buffer)
    /\ unwrap(model.index_buffer).contents = <<0, 0, 0, 0, 1, 0, 0, 0, 2, 0, 0, 0>>
    /\ Len(unwrap(model.vertex_buffer).contents) = 24
    /\ Len(model.vertices) = 2 /\ model.indices = <<258>>
    /\ ~modelPanicked


\* The path the claim names for the file asked for last.
ClaimedPath == under_assets(loadEnv.cwd.dir, loadOut.file)

\* C17: every loader operation makes one read, of
\* <working directory>/res/cube/<file name>, and nothing else is read; it
\* returns, and when the working directory or the file cannot be read what it
\* returns is that error; load_texture asks for no decode when the read
\* failed and otherwise asks for one decode of the bytes read and returns
\* what the decode gave.
C17_OneReadErrorsReturned ==
    loadOut.op # "none" =>
        /\ ~loadOut.panicked
        /\ (loadEnv.cwd.kind = "ok" => loadOut.reads = <<ClaimedPath>>)
        /\ (loadEnv.cwd.kind = "err" =>
                loadOut.reads = <<>> /\ loadOut.result = Err("current_dir"))
        /\ (loadEnv.cwd.kind = "ok" /\ loadEnv.fs[ClaimedPath].kind # "data" =>
                /\ loadOut.result = Err(loadEnv.fs[ClaimedPath].kind)
                /\ loadOut.decodes = <<>>)
        /\ (loadOut.op # "load_texture" => loadOut.decodes = <<>>)
        /\ (loadOut.op = "load_texture" /\ loadEnv.cwd.kind = "ok"
              /\ loadEnv.fs[ClaimedPath].kind = "data" =>
                /\ loadOut.decodes = <<[data |-> loadEnv.fs[ClaimedPath].bytes,
                                        label |-> loadOut.file]>>
                /\ loadOut.result.kind = (IF loadEnv.decode = "texture"
                                          THEN "texture" ELSE "err")
                /\ (loadEnv.decode # "texture" =>
                        loadOut.result = Err("decode_error")))

\* C17 where the claim's path can be printed and is the path joined: the
\* same, for a relative file name and a working directory whose name is valid
\* UTF-8 or that cannot be obtained.
C17_HoldsOnUtf8RelativePaths ==
    (loadOut.op # "none" /\ loadEnv.cwd.utf8 /\ ~is_absolute(loadOut.file)) =>
        /\ ~loadOut.panicked
        /\ (loadEnv.cwd.kind = "ok" => loadOut.reads = <<ClaimedPath>>)
        /\ (loadEnv.cwd.kind = "err" =>
                loadOut.reads = <<>> /\ loadOut.result = Err("current_dir"))
        /\ (loadEnv.cwd.kind = "ok" /\ loadEnv.fs[ClaimedPath].kind # "data" =>
                /\ loadOut.result = Err(loadEnv.fs[ClaimedPath].kind)
                /\ loadOut.decodes = <<>>)
        /\ (loadOut.op # "load_texture" => loadOut.decodes = <<>>)
        /\ (loadOut.op = "load_texture" /\ loadEnv.cwd.kind = "ok"
              /\ loadEnv.fs[ClaimedPath].kind = "data" =>
                /\ Len(loadOut.decodes) = 1
                /\ loadOut.decodes[1].data = loadEnv.fs[ClaimedPath].bytes
                /\ loadOut.result = from_bytes(loadEnv, loadOut.decodes[1].data,
                                               loadOut.file))


\* A construction has been started and no Application is stored; the process
\* lives.
ConstructionPending == nNew > 0 /\ ~is_some(app) /\ ~panicked

\* C18: no handler is entered while a construction has been started and the
\* Application is not stored; as long as that is so the `resumed` that
\* started the construction has not returned; and the construction ends
\* inside that same `resumed`, by the Application being stored or by the
\* process aborting.
C18_ConstructionInsideResumed ==
    [][ /\ (tick' # tick => ~ConstructionPending)
        /\ (ConstructionPending' => prog' # <<>> /\ lastEvent' = "Resumed")
        /\ (ConstructionPending /\ ~ConstructionPending' =>
                /\ tick' = tick
                /\ panicked' \/ (is_some(app') /\ prog' # <<>>))
      ]_vars

\* The construction finished and the Application is about to be stored: the
\* handler still has its statements from the second lock on to run.
C18_Witness ==
    /\ ConstructionPending /\ is_some(locals.wgpu_app)
    /\ prog = <<"lock", "replace_app", "unlock", "replace_window", "ret">>
    /\ lastEvent = "Resumed"

\* C20: the mutex is never locked by a handler that holds it, so no handler
\* deadlocks, and every statement that reads or writes the Application runs
\* with the mutex held. `resumed` takes the lock once when it returns early
\* and twice when it constructs, never holding it across the construction;
\* window_event takes it once, holds it for every statement of its arm (the
\* window helpers included, which leave the mutex alone) and gives it back
\* before it returns or when a panic unwinds it; `suspended` never takes it.
\* Between two handlers the mutex is free.
C20_LockDiscipline ==
    [][ /\ ~mutex'.deadlocked /\ ~mutex'.unguarded
        /\ (prog # <<>> /\ Head(prog) = "lock" /\ prog' # prog => ~mutex.held)
        /\ (prog' = <<>> => ~mutex'.held)
        /\ (prog # <<>> /\ prog' # prog /\ tick' = tick =>
              /\ (Head(prog) \in {"Runtime::new", "create_window", "A::new",
                                  "block_on"} => ~mutex.held)
              /\ (Head(prog) \in {"unwrap_app", "exit", "set_window_resized",
                                  "keyboard_input", "update",
                                  "pre_present_notify", "render",
                                  "request_redraw"} =>
                      /\ mutex.held /\ mutex.acquired = 1
                      /\ mutex'.held = ~panicked')
              /\ (Head(prog) \in {"pre_present_notify", "request_redraw"} =>
                      mutex' = mutex)
              /\ (Head(prog) = "ret" =>
                      mutex.acquired = (CASE lastEvent = "Suspended" -> 0
                                          [] lastEvent = "Resumed" -> 2
                                          [] OTHER -> 1))
              /\ (Head(prog) = "return_if_present" /\ prog' = <<>> =>
                      mutex.acquired = 1))
      ]_vars

\* A redraw is being handled: the frame was rendered under the guard taken at
\* the head of window_event and the redraw request is next.
C20_Witness ==
    /\ lastEvent = "RedrawRequested" /\ prog = <<"request_redraw", "unlock", "ret">>
    /\ mutex.held /\ mutex.acquired = 1 /\ renderResult = "Ok"


\* How many times x occurs in seq.
Count(seq, x) == Cardinality({k \in 1..Len(seq) : seq[k] = x})

\* C21: once the Application is constructed the surface is configured only in
\* a handler that calls render, at most once in it, and only when a resize is
\* pending; that one configuration takes the size recorded last, whatever
\* number of resizes was recorded since the frame before, and leaves no
\* resize pending, so the next render does not configure again.
C21_ReconfigureOncePerRender ==
    [][ /\ (Running /\ ~HandlerRan => app' = app)
        /\ (Running /\ HandlerRan) =>
          /\ Count(surfaceOps', "configure") <= Count(calls', "render")
          /\ Count(calls', "render") <= 1
          /\ (Has(surfaceOps', "configure") =>
                /\ lastEvent' = "RedrawRequested"
                /\ unwrap(app).size_changed
                /\ unwrap(app').surface_config = unwrap(app).size
                /\ unwrap(app').size = unwrap(app).size
                /\ ~unwrap(app').size_changed)
          /\ (~Has(surfaceOps', "configure") =>
                unwrap(app').surface_config = unwrap(app).surface_config)
      ]_vars

\* A frame has applied a recorded size that differs in both dimensions from
\* the size the surface had at construction or at the frame before.
C21_Witness ==
    /\ Running /\ lastEvent = "RedrawRequested"
    /\ Count(surfaceOps, "configure") = 1 /\ Count(calls, "render") = 1
    /\ unwrap(app).surface_config = <<2, 2>> /\ unwrap(app).size = <<2, 2>>
    /\ ~unwrap(app).size_changed


\* C23: a window event handled while no Application is stored aborts the
\* process whatever its kind, before any call is made: a close request in
\* that state does not signal exit. A window event handled while an
\* Application is stored passes the unwrap and reaches its arm: it aborts
\* only inside a render call made by the redraw arm.
C23_WindowEventBeforeResumedAborts ==
    [][ HandlerRan /\ lastEvent' \in WindowEvents =>
          /\ (~Running =>
                /\ panicked'
                /\ calls' = <<>> /\ surfaceOps' = <<>>
                /\ loop' = loop /\ app' = app /\ window' = window)
          /\ (Running /\ panicked' =>
                /\ lastEvent' = "RedrawRequested"
                /\ Has(calls', "render") /\ renderResult' = "Panic")
      ]_vars

\* A close request was delivered before any `resumed`: the process aborted
\* and exit was not signalled.
C23_Witness ==
    /\ panicked /\ lastEvent = "CloseRequested" /\ ~Running
    /\ loop = "running" /\ nNew = 0 /\ calls = <<>>


\* C24: whenever an Application is stored and no resize is pending, the
\* surface configuration equals the stored size. The pending flag is set only
\* by a Resized handler calling set_window_resized with a size other than the
\* stored one, which becomes the stored size; it is cleared only by a render
\* that configures the surface, after which the configuration is the stored
\* size.
C24_FlagClearMeansInSync ==
    [][ /\ (is_some(app') /\ ~unwrap(app').size_changed =>
                unwrap(app').surface_config = unwrap(app').size)
        /\ (Running /\ ~unwrap(app).size_changed /\ unwrap(app').size_changed =>
                /\ HandlerRan /\ lastEvent' = "Resized"
                /\ Has(calls', "set_window_resized")
                /\ lastSize' # unwrap(app).size
                /\ unwrap(app').size = lastSize'
                /\ unwrap(app').surface_config = unwrap(app).surface_config)
        /\ (Running /\ unwrap(app).size_changed /\ ~unwrap(app').size_changed =>
                /\ HandlerRan /\ Has(calls', "render")
                /\ Has(surfaceOps', "configure")
                /\ unwrap(app').size = unwrap(app).size
                /\ unwrap(app').surface_config = unwrap(app).size)
      ]_vars

\* A render has cleared a pending resize to 1x2.
C24_Witness ==
    /\ Running /\ lastEvent = "RedrawRequested" /\ Has(surfaceOps, "configure")
    /\ ~unwrap(app).size_changed
    /\ unwrap(app).size = <<1, 2>> /\ unwrap(app).surface_config = <<1, 2>>

\* C25: the surface configuration of a stored Application has a width and a
\* height of at least 1, whatever inner size the window had at construction
\* and whatever resizes followed.
C25_SurfaceNeverZero ==
    Running =>
        /\ unwrap(app).surface_config[1] >= 1
        /\ unwrap(app).surface_config[2] >= 1


\* C26: in the pass load_model's render records, at every indexed draw the
\* instance buffer bound before the model was drawn is still the buffer at
\* vertex-buffer slot 0, and what is bound at each vertex-buffer slot and at
\* each bind-group index is of the kind the pipeline declares there: the
\* vertex buffer at slot 1, the camera bind group at index 0 and the
\* material's bind group at index 1.
C26_SlotsAgreeWithPipeline ==
    (lastDraw.op = "draw_model_instanced" /\ lastDraw.start = 2) =>
        \A p \in Draws :
            /\ BoundAt(p, "set_vertex_buffer", 0) = Res("instance_buffer", 0)
            /\ \A s \in 1..Len(PipelineVertexBuffers) :
                   BoundAt(p, "set_vertex_buffer", s - 1).kind
                       = PipelineVertexBuffers[s]
            /\ \A g \in 1..Len(PipelineBindGroups) :
                   BoundAt(p, "set_bind_group", g - 1).kind
                       = PipelineBindGroups[g]


\* C22: in the triangle programs, a redraw request handled while a resize is
\* pending, whose render returns Ok, leaves the surface configuration equal
\* to the recorded size and no resize pending.
C22_TriangleResizeAppliedByNextFrame ==
    [][ (/\ HandlerRan /\ lastEvent' = "RedrawRequested"
         /\ Running /\ unwrap(app).size_changed
         /\ renderResult' = "Ok") =>
            /\ unwrap(app').surface_config = unwrap(app).size
            /\ ~unwrap(app').size_changed
      ]_vars

====
